---- MODULE Spec2Model ----
(***************************************************************************)
(* FeedbackAnalyzer: the two-stage pipeline of /api/analyze (column        *)
(* mapping inference and validation) and /api/process (batched, streamed   *)
(* categorization, statistics fold, summary and persistence).              *)
(*                                                                         *)
(* JavaScript strings are TLA+ strings; a spreadsheet cell is a tagged     *)
(* value [k, s]: k = "s" a string cell, k = "n" a number cell (s is its    *)
(* decimal text), k = "u" undefined (the key is absent from the row).      *)
(* An optional string (string | null | undefined) is a sequence of length  *)
(* 0 or 1.                                                                 *)
(***************************************************************************)
EXTENDS Integers, Sequences, FiniteSets, TLC

\* ------------------------------------------------------------------------
\* Bounds of the model
\* ------------------------------------------------------------------------
MaxRows == 101

\* the distinct topics and sub-categories one response of the capability may name
MaxValues == 51

\* ------------------------------------------------------------------------
\* Program constants
\* ------------------------------------------------------------------------
GENERATED_ID_HEADER == "__generated_row_id__"

BATCH_SIZE == 50

SUB_CATEGORY_DEFAULT == "detail_na"

TOPIC_CONTEXT_LIMIT == 30

SUBCATEGORY_CONTEXT_LIMIT == 50

DEFAULT_SUMMARY == "AI summary could not be generated."

MOCK_SUMMARY == "Mock Summary: Feedback shows mixed results with some positive comments about X and negative comments about Y."

\* ------------------------------------------------------------------------
\* JavaScript values
\* ------------------------------------------------------------------------
None == << >>

Some(s) == << s >>

Str(s) == [k |-> "s", s |-> s]

Num(n) == [k |-> "n", s |-> ToString(n)]

Undef == [k |-> "u", s |-> ""]

\* null, also the value of a column that was never written
Null == [k |-> "null", s |-> ""]

\* v ?? d
Coalesce(v, d) == IF v.k = "u" THEN d ELSE v

\* String(v) for a defined cell
JSString(v) == v.s

\* row[h]
Cell(row, h) == IF h \in DOMAIN row THEN row[h] ELSE Undef

\* ------------------------------------------------------------------------
\* String.prototype.trim / toLowerCase / replace(/\s+/g, '_')
\* ------------------------------------------------------------------------
IsSpace(c) == c \in {" ", "\t", "\n"}

\* the element of a singleton set: The({e(v) : v \in {d}}) is e(v) for v = d, with
\* d evaluated once (what a const declaration does)
The(S) == CHOOSE x \in S : TRUE

LowerMap ==
    [c \in {"A","B","C","D","E","F","G","H","I","J","K","L","M",
            "N","O","P","Q","R","S","T","U","V","W","X","Y","Z"} |->
        CASE c = "A" -> "a" [] c = "B" -> "b" [] c = "C" -> "c" [] c = "D" -> "d"
          [] c = "E" -> "e" [] c = "F" -> "f" [] c = "G" -> "g" [] c = "H" -> "h"
          [] c = "I" -> "i" [] c = "J" -> "j" [] c = "K" -> "k" [] c = "L" -> "l"
          [] c = "M" -> "m" [] c = "N" -> "n" [] c = "O" -> "o" [] c = "P" -> "p"
          [] c = "Q" -> "q" [] c = "R" -> "r" [] c = "S" -> "s" [] c = "T" -> "t"
          [] c = "U" -> "u" [] c = "V" -> "v" [] c = "W" -> "w" [] c = "X" -> "x"
          [] c = "Y" -> "y" [] c = "Z" -> "z"]

CharAt(s, i) == SubSeq(s, i, i)

\* the position of the first character that is not whitespace (Len(s) + 1: none)
FirstNonSpace(s) ==
    CHOOSE k \in 1..(Len(s) + 1) :
        /\ k = Len(s) + 1 \/ ~IsSpace(CharAt(s, k))
        /\ \A j \in 1..(k - 1) : IsSpace(CharAt(s, j))

\* the position of the last character that is not whitespace (0: none)
LastNonSpace(s) ==
    CHOOSE k \in 0..Len(s) :
        /\ k = 0 \/ ~IsSpace(CharAt(s, k))
        /\ \A j \in (k + 1)..Len(s) : IsSpace(CharAt(s, j))

TrimStart(s) == The({SubSeq(v, FirstNonSpace(v), Len(v)) : v \in {s}})

TrimEnd(s) == The({SubSeq(v, 1, LastNonSpace(v)) : v \in {s}})

Trim(s) == The({TrimEnd(v) : v \in {TrimStart(s)}})

\* the lower-case form of one character
LowerChar(c) == IF c \in DOMAIN LowerMap THEN LowerMap[c] ELSE c

\* the characters lo..hi of s in lower case
RECURSIVE LowerRange(_, _, _)
LowerRange(s, lo, hi) ==
    IF lo > hi THEN ""
    ELSE IF lo = hi THEN LowerChar(CharAt(s, lo))
    ELSE The({LowerRange(s, lo, mid) \o LowerRange(s, mid + 1, hi) :
                 mid \in {(lo + hi) \div 2}})

ToLowerCase(s) == The({LowerRange(v, 1, Len(v)) : v \in {s}})

\* what replace(/\s+/g, '_') leaves of the character at k: a maximal run of
\* whitespace becomes one underscore, written where the run starts
ReplacedChar(s, k) ==
    IF ~IsSpace(CharAt(s, k)) THEN CharAt(s, k)
    ELSE IF k = 1 \/ ~IsSpace(CharAt(s, k - 1)) THEN "_"
    ELSE ""

RECURSIVE ReplaceRange(_, _, _)
ReplaceRange(s, lo, hi) ==
    IF lo > hi THEN ""
    ELSE IF lo = hi THEN ReplacedChar(s, lo)
    ELSE The({ReplaceRange(s, lo, mid) \o ReplaceRange(s, mid + 1, hi) :
                 mid \in {(lo + hi) \div 2}})

ReplaceSpaces(s) == The({ReplaceRange(v, 1, Len(v)) : v \in {s}})

\* s.trim().toLowerCase().replace(/\s+/g, '_')
Normalize(s) == The({The({ReplaceSpaces(v) : v \in {ToLowerCase(t)}}) : t \in {Trim(s)}})

\* ------------------------------------------------------------------------
\* Uploaded spreadsheets (the Tabular Ingestor's output, XLSX.utils.sheet_to_json):
\* row i of a sheet of a given kind.  A blank cell is an absent key.
\* ------------------------------------------------------------------------
SheetKinds == {"text", "sparse", "numid"}

TextRow(i) ==
    LET email == IF i = 1 THEN "a@x.com" ELSE "r" \o ToString(i) \o "@x.com"
    IN  CASE i % 4 = 1 -> [h \in {"Email", "Rating", "Comments"} |->
                             CASE h = "Email" -> Str(email)
                               [] h = "Rating" -> Str("5")
                               [] h = "Comments" -> Str("great staff")]
          [] i % 4 = 2 -> [h \in {"Email", "Rating", "Comments"} |->
                             CASE h = "Email" -> Str(email)
                               [] h = "Rating" -> Str(" Very  Good ")
                               [] h = "Comments" -> Str("")]
          [] i % 4 = 3 -> [h \in {"Email", "Comments"} |->
                             CASE h = "Email" -> Str(email)
                               [] h = "Comments" -> Str("  ")]
          [] i % 4 = 0 -> [h \in {"Email", "Rating", "Comments"} |->
                             CASE h = "Email" -> Str(email)
                               [] h = "Rating" -> Num(4)
                               [] h = "Comments" -> Str("Slow  Bus")]

\* a whitespace-named column, equal identifiers, comments only in the first rows:
\* later rows have a blank comment or none
SparseRow(i) ==
    LET email == IF i % 2 = 1 THEN "a@x.com" ELSE "b@x.com"
    IN  IF i <= 2
        THEN [h \in {"Email", "Rating", "Comments", " "} |->
                 CASE h = "Email" -> Str(email)
                   [] h = "Rating" -> Str("Yes")
                   [] h = "Comments" -> Str("Late bus")
                   [] h = " " -> Str("x")]
        ELSE IF i % 2 = 0
        THEN [h \in {"Email", "Rating", "Comments", " "} |->
                 CASE h = "Email" -> Str(email)
                   [] h = "Rating" -> Str("No")
                   [] h = "Comments" -> Str("  ")
                   [] h = " " -> Str("")]
        ELSE [h \in {"Email", "Rating", " "} |->
                 CASE h = "Email" -> Str(email)
                   [] h = "Rating" -> Str("No")
                   [] h = " " -> Str("")]

\* numeric identifiers, absent in every even row
NumIdRow(i) ==
    IF i % 2 = 1
    THEN [h \in {"Email", "Rating", "Comments"} |->
             CASE h = "Email" -> Num(i)
               [] h = "Rating" -> Num(3)
               [] h = "Comments" -> Str("Good Food")]
    ELSE [h \in {"Rating", "Comments"} |->
             CASE h = "Rating" -> Num(3)
               [] h = "Comments" -> Str("Good Food")]

SheetRow(kind, i) ==
    CASE kind = "text" -> TextRow(i)
      [] kind = "sparse" -> SparseRow(i)
      [] kind = "numid" -> NumIdRow(i)

Sheet(kind, n) == [i \in 1..n |-> SheetRow(kind, i)]

\* row counts around the batch boundaries, up to MaxRows
RowCounts ==
    {n \in 0..MaxRows : n <= 2 \/ n \in {BATCH_SIZE, BATCH_SIZE + 1} \/ n = MaxRows}

\* ------------------------------------------------------------------------
\* /api/analyze: the mapping the classification capability may propose
\* ------------------------------------------------------------------------
QH(h, c) == [header |-> h, isCategorical |-> c]

ProposedIds == {None, Some("Email"), Some("Name"), Some(GENERATED_ID_HEADER)}

ProposedQuestionLists ==
    { << QH("Rating", TRUE), QH("Comments", FALSE) >>,
      << QH("Comments", FALSE) >>,
      << QH("Rating", TRUE) >>,
      << QH("Email", FALSE), QH("Rating", TRUE), QH("Comments", FALSE) >>,
      << QH("Email", TRUE), QH("Rating", TRUE), QH("Email", FALSE) >>,
      << QH(GENERATED_ID_HEADER, FALSE), QH("Rating", TRUE), QH("Comments", FALSE) >>,
      << QH("Rating", TRUE), QH("Bogus", FALSE), QH("Extra", TRUE) >>,
      << QH(GENERATED_ID_HEADER, TRUE), QH("Bogus", FALSE) >>,
      << QH(" ", TRUE), QH("Rating", TRUE), QH("Comments", FALSE) >>,
      << QH("Rating", TRUE), QH("Rating", TRUE), QH("Comments", FALSE) >>,
      << >> }

Proposals ==
    {[studentIdHeader |-> sid, questionHeaders |-> qs] :
        sid \in ProposedIds, qs \in ProposedQuestionLists}

NoProposal == [studentIdHeader |-> None, questionHeaders |-> << QH("", FALSE) >>]

\* allHeaders = Object.keys(rows[0]); only membership is used
AllHeaders(rs) == DOMAIN rs[1]

\* studentIdHeader === null || !allHeaders.includes(studentIdHeader)
IdIsInvalid(p, rs) ==
    p.studentIdHeader = None \/ p.studentIdHeader[1] \notin AllHeaders(rs)

\* the rows labelled with the index counted from zero
AddGeneratedIds_ZeroBased(rs) ==
    [i \in 1..Len(rs) |->
        [h \in DOMAIN rs[i] \cup {GENERATED_ID_HEADER} |->
            IF h = GENERATED_ID_HEADER THEN Str("Row " \o ToString(i - 1)) ELSE rs[i][h]]]

\* rows.map((row, index) => ({...row, [GENERATED_ID_HEADER]: `Row ${index + 1}`}))
AddGeneratedIds(rs) ==
    [i \in 1..Len(rs) |->
        [h \in DOMAIN rs[i] \cup {GENERATED_ID_HEADER} |->
            IF h = GENERATED_ID_HEADER THEN Str("Row " \o ToString(i)) ELSE rs[i][h]]]

\* questionHeaders.filter(qh => qh.header !== studentIdHeader)
WithoutHeader(qs, sid) == SelectSeq(qs, LAMBDA qh : qh.header # sid)

\* allQuestionHeaderStrings.filter(header => !allHeaders.includes(header))
InvalidQuestionHeaders(qs, hs) ==
    LET strings == [j \in 1..Len(qs) |-> qs[j].header]
    IN  SelectSeq(strings, LAMBDA h : h \notin hs)

\* the final check left out
FinalCheck_Skipped(qs, sid) == qs

\* the final check: the identifier is not also listed as a question
FinalCheck(qs, sid) ==
    IF \E j \in 1..Len(qs) : qs[j].header = sid
    THEN WithoutHeader(qs, sid)
    ELSE qs

\* validation that drops the headers it does not find instead of throwing
ValidateMapping_Prunes(p, rs) ==
    LET generated == IdIsInvalid(p, rs)
        sid       == IF generated THEN GENERATED_ID_HEADER ELSE p.studentIdHeader[1]
        rows1     == IF generated THEN AddGeneratedIds(rs) ELSE rs
        hs        == AllHeaders(rows1)
        local     == SelectSeq(p.questionHeaders, LAMBDA qh : qh.header \in hs)
    IN  [status |-> 200, invalid |-> << >>, rows |-> rows1,
         mapping |-> [studentIdHeader |-> sid,
                      questionHeaders |-> FinalCheck(local, sid)]]

\* Section 4.4 of the handler: the outcome of validating proposal p over rows rs
ValidateMapping(p, rs) ==
    LET generated == IdIsInvalid(p, rs)
        sid       == IF generated THEN GENERATED_ID_HEADER ELSE p.studentIdHeader[1]
        rows1     == IF generated THEN AddGeneratedIds(rs) ELSE rs
        hs        == AllHeaders(rows1)
        invalid   == InvalidQuestionHeaders(p.questionHeaders, hs)
        onlyGenId == generated /\ Len(invalid) = 1 /\ invalid[1] = sid
        local     == IF Len(invalid) > 0 /\ onlyGenId
                     THEN WithoutHeader(p.questionHeaders, sid)
                     ELSE p.questionHeaders
    IN  IF Len(invalid) > 0 /\ ~onlyGenId
        THEN [status |-> 500, invalid |-> invalid, rows |-> rows1,
              mapping |-> [studentIdHeader |-> sid, questionHeaders |-> << >>]]
        ELSE [status |-> 200, invalid |-> << >>, rows |-> rows1,
              mapping |-> [studentIdHeader |-> sid,
                           questionHeaders |-> FinalCheck(local, sid)]]

\* ------------------------------------------------------------------------
\* /api/process: request validation
\* ------------------------------------------------------------------------
\* !runId || !confirmedMapping || !rows || !Array.isArray(rows) || !studentIdHeader
\*   || !Array.isArray(questionHeaders) || questionHeaders.length === 0
\* confirmedMapping and rows are absent (None) or present (Some); an absent or
\* empty runId is ""
ValidRequest(req) ==
    /\ req.runId # ""
    /\ req.confirmedMapping # None
    /\ req.rows # None
    /\ req.confirmedMapping[1].studentIdHeader # ""
    /\ Len(req.confirmedMapping[1].questionHeaders) # 0

\* ------------------------------------------------------------------------
\* /api/process: one batch
\* ------------------------------------------------------------------------
Min(a, b) == IF a < b THEN a ELSE b

\* Math.ceil(rows.length / BATCH_SIZE)
TotalBatches(n) == (n + BATCH_SIZE - 1) \div BATCH_SIZE

\* the batch number counted from zero
BatchNumber_ZeroBased(off) == off \div BATCH_SIZE

\* i / BATCH_SIZE + 1
BatchNumber(off) == off \div BATCH_SIZE + 1

\* the positions (1-based) of rows.slice(i, i + BATCH_SIZE)
BatchPositions(off, n) == (off + 1)..Min(off + BATCH_SIZE, n)

qualitativeQuestions(qs) == SelectSeq(qs, LAMBDA q : ~q.isCategorical)

categoricalQuestions(qs) == SelectSeq(qs, LAMBDA q : q.isCategorical)

\* row[studentIdHeader] ?? `Row ${i + index + 1} (No ID)`
RespondentId(row, sid, pos) ==
    Coalesce(Cell(row, sid), Str("Row " \o ToString(pos) \o " (No ID)"))

\* the answer normalized without the default for a blank one
NormalizedAnswer_NoDefault(answer) == Normalize(JSString(Coalesce(answer, Str(""))))

\* String(answer ?? '').trim().toLowerCase().replace(/\s+/g, '_') || SUB_CATEGORY_DEFAULT
NormalizedAnswer(answer) ==
    The({IF n = "" THEN SUB_CATEGORY_DEFAULT ELSE n :
             n \in {Normalize(JSString(Coalesce(answer, Str(""))))}})

\* the record pushed for one row and one categorical question
CategoricalRecord(rid, row, sid, pos, question) ==
    LET answer == Cell(row, question)
    IN  [run_id |-> rid,
         student_identifier |-> RespondentId(row, sid, pos),
         question_text |-> question,
         original_answer |-> Str(JSString(Coalesce(answer, Str("")))),
         topic |-> Normalize(question),
         sentiment |-> "n/a",
         sub_category |-> Some(NormalizedAnswer(answer))]

\* batch.forEach(row => categoricalQuestions.forEach(qInfo => push(...)))
CategoricalPass(rid, rs, sid, qs, off) ==
    LET cats == categoricalQuestions(qs)
        nc   == Len(cats)
        nr   == Cardinality(BatchPositions(off, Len(rs)))
    IN  [j \in 1..(nr * nc) |->
            LET pos == off + 1 + ((j - 1) \div nc)
                q   == cats[((j - 1) % nc) + 1].header
            IN  CategoricalRecord(rid, rs[pos], sid, pos, q)]

\* the answer is compared as it stands, without trim()
HasQualitativeAnswer_Untrimmed(row, qs) ==
    \E j \in 1..Len(qualitativeQuestions(qs)) :
        JSString(Coalesce(Cell(row, qualitativeQuestions(qs)[j].header), Str(""))) # ""

\* answers.some(a => String(a.answer ?? '').trim() !== '')
HasQualitativeAnswer(row, qs) ==
    \E j \in 1..Len(qualitativeQuestions(qs)) :
        Trim(JSString(Coalesce(Cell(row, qualitativeQuestions(qs)[j].header), Str("")))) # ""

qualitativeDataExistsInBatch(rs, qs, off) ==
    \E pos \in BatchPositions(off, Len(rs)) : HasQualitativeAnswer(rs[pos], qs)

\* Array.from(set), without the slice
Slice_Unlimited(seq, limit) == seq

\* Array.from(set).slice(0, limit)
Slice(seq, limit) == SubSeq(seq, 1, Min(limit, Len(seq)))

\* the ids printed as `Respondent ID: ${item.respondentId}`, for the rows of the
\* batch with a non-blank qualitative answer, in row order
PromptRespondents(rs, sid, qs, first, last) ==
    The({[k \in 1..Len(listed) |->
             JSString(RespondentId(rs[listed[k]], sid, listed[k]))] \o << >> :
         listed \in {SelectSeq([k \in 1..(last - first + 1) |-> first + k - 1],
                               LAMBDA pos : HasQualitativeAnswer(rs[pos], qs))}})

\* the parts of batchPrompt that vary: the context hint and the respondents listed
BatchPrompt(rs, sid, qs, off, topics, subs) ==
    [topics |-> IF BatchNumber(off) > 1 /\ Len(topics) > 0
                THEN Slice(topics, TOPIC_CONTEXT_LIMIT) ELSE << >>,
     subCategories |-> IF BatchNumber(off) > 1 /\ Len(subs) > 0
                       THEN Slice(subs, SUBCATEGORY_CONTEXT_LIMIT) ELSE << >>,
     respondents |-> PromptRespondents(rs, sid, qs, off + 1, Min(off + BATCH_SIZE, Len(rs)))]

NoPrompt == [topics |-> << >>, subCategories |-> << >>, respondents |-> << >>]

\* ------------------------------------------------------------------------
\* The classification capability: what generateObject may resolve to for a
\* prompt (a value that passed batchCategorizationSchema)
\* ------------------------------------------------------------------------
Cat(q, t, s, sub) == [question |-> q, topic |-> t, sentiment |-> s, sub_category |-> sub]

Student(id, cats) == [respondentId |-> id, categorizations |-> cats]

\* every listed respondent, every qualitative question
FullResponse(prompt, qs) ==
    LET quals == qualitativeQuestions(qs)
    IN  [j \in 1..Len(prompt.respondents) |->
            Student(prompt.respondents[j],
                    [m \in 1..Len(quals) |-> Cat(quals[m].header, "staff", "positive", None)])]

\* only the first respondent, values that need normalizing, a topic with a
\* sentiment word in it
FirstResponse(prompt, qs) ==
    LET quals == qualitativeQuestions(qs)
    IN  << Student(prompt.respondents[1],
                   [m \in 1..Len(quals) |->
                       Cat(quals[m].header, " Less  Positive  Service ", "negative",
                           Some("Long Wait"))]) >>

\* an unknown respondent with more distinct topics and sub-categories than the
\* context hint takes, a question that is not qualitative, a repeated question,
\* a blank topic and blank sub-categories
OddResponse(prompt, qs) ==
    LET q1 == qualitativeQuestions(qs)[1].header
    IN  << Student("ghost",
                   << Cat(q1, "Food", "neutral", Some("")) >> \o
                   [m \in 1..MaxValues |->
                       Cat(q1, "Topic " \o ToString(m), "neutral",
                           Some("Reason " \o ToString(m)))]),
           Student(prompt.respondents[1],
                   << Cat("Rating", "Scale", "positive", None),
                      Cat(q1, "  ", "n/a", Some("  ")),
                      Cat(q1, "Staff", "positive", Some("Friendly Staff")) >>) >>

LLMResponses(prompt, qs) ==
    {FullResponse(prompt, qs), FirstResponse(prompt, qs), OddResponse(prompt, qs), << >>}

\* mockAnalyzeFeedbackBatch: the ids matched by /Respondent ID: (.*)/g, trimmed
MockResponse(prompt) ==
    [j \in 1..Len(prompt.respondents) |->
        Student(IF Trim(prompt.respondents[j]) = "" THEN "MockRespondent_"
                ELSE Trim(prompt.respondents[j]),
                << Cat("Mock Question 1", "mock_topic_1", "positive", None),
                   Cat("Mock Question 2", "mock_topic_2", "neutral", None) >>)]

\* ------------------------------------------------------------------------
\* Parsing & normalization of the capability's answer
\* ------------------------------------------------------------------------
\* cat.topic?.trim().toLowerCase().replace(/\s+/g, '_') || 'n/a'
NormalizedTopic(t) == The({IF n = "" THEN "n/a" ELSE n : n \in {Normalize(t)}})

\* cat.sentiment || 'neutral'
NormalizedSentiment(s) == IF s = "" THEN "neutral" ELSE s

\* cat.sub_category?.trim().toLowerCase().replace(/\s+/g, '_') || null, then ?? undefined
NormalizedSubCategory(sub) ==
    IF sub = None THEN None
    ELSE The({IF n = "" THEN None ELSE Some(n) : n \in {Normalize(sub[1])}})

NormalizeCat(c) ==
    Cat(c.question, NormalizedTopic(c.topic), NormalizedSentiment(c.sentiment),
        NormalizedSubCategory(c.sub_category))

NormalizeResponse(resp) ==
    [j \in 1..Len(resp) |->
        Student(resp[j].respondentId,
                [m \in 1..Len(resp[j].categorizations) |->
                    NormalizeCat(resp[j].categorizations[m])] \o << >>)] \o << >>

\* Set.prototype.add on an insertion-ordered set
SetAdd(seq, x) == IF \E j \in 1..Len(seq) : seq[j] = x THEN seq ELSE Append(seq, x)

\* seq.forEach(x => set.add(x)) for xs[lo..hi], left to right (the range is
\* halved to keep the evaluation shallow)
RECURSIVE AddRange(_, _, _, _)
AddRange(seq, xs, lo, hi) ==
    IF lo > hi THEN seq
    ELSE IF lo = hi THEN SetAdd(seq, xs[lo])
    ELSE The({The({AddRange(left, xs, mid + 1, hi) :
                       left \in {AddRange(seq, xs, lo, mid)}}) :
                 mid \in {(lo + hi) \div 2}})

AddAll(seq, xs) == The({AddRange(seq, v, 1, Len(v)) : v \in {xs \o << >>}})

\* the concatenation of ss[lo..hi], in order
RECURSIVE FlattenRange(_, _, _)
FlattenRange(ss, lo, hi) ==
    IF lo > hi THEN << >>
    ELSE IF lo = hi THEN ss[lo]
    ELSE The({FlattenRange(ss, lo, mid) \o FlattenRange(ss, mid + 1, hi) :
                 mid \in {(lo + hi) \div 2}})

Flatten(ss) == The({FlattenRange(v, 1, Len(v)) : v \in {ss \o << >>}})

\* all categorizations of a normalized response, in iteration order
AllCats(norm) == Flatten([j \in 1..Len(norm) |-> norm[j].categorizations])

\* identifiedTopics after the normalization loop
TopicsAfter(topics, norm) ==
    The({AddAll(topics, [j \in 1..Len(named) |-> named[j].topic]) :
             named \in {SelectSeq(AllCats(norm), LAMBDA c : c.topic # "n/a")}})

\* identifiedSubCategories after the normalization loop
SubCategoriesAfter(subs, norm) ==
    The({AddAll(subs, [j \in 1..Len(named) |-> named[j].sub_category[1]]) :
             named \in {SelectSeq(AllCats(norm), LAMBDA c : c.sub_category # None)}})

\* ------------------------------------------------------------------------
\* Accumulating the capability's results
\* ------------------------------------------------------------------------
\* originalId === respondentResult.respondentId (strict equality with a string)
StrictEqualsString(v, str) == v.k = "s" /\ v.s = str

\* a respondent that no row matches is taken to be the first row of the batch
OriginalRow_FirstRow(rs, sid, off, id) == off + 1

\* batch.find(...): the position of the first row of the batch with that id, or 0
OriginalRow(rs, sid, off, id) ==
    The({IF hits = {} THEN 0 ELSE CHOOSE pos \in hits : \A o \in hits : pos <= o :
         hits \in {{pos \in BatchPositions(off, Len(rs)) :
                       StrictEqualsString(RespondentId(rs[pos], sid, pos), id)}}})

\* the categorizations that pass qualitativeQuestions.some(q => q.header === question)
KeptCategorizations(qs, result) ==
    SelectSeq(result.categorizations,
              LAMBDA c : \E m \in 1..Len(qualitativeQuestions(qs)) :
                            qualitativeQuestions(qs)[m].header = c.question)

\* the records pushed for one respondentResult
QualitativeRecords(rid, rs, sid, qs, off, result) ==
    The({IF pos = 0 THEN << >>
         ELSE The({[j \in 1..Len(kept) |->
                       [run_id |-> rid,
                        student_identifier |-> Str(result.respondentId),
                        question_text |-> kept[j].question,
                        original_answer |->
                            Coalesce(Cell(rs[pos], kept[j].question), Str("")),
                        topic |-> kept[j].topic,
                        sentiment |-> kept[j].sentiment,
                        sub_category |-> kept[j].sub_category]] \o << >> :
                   kept \in {KeptCategorizations(qs, result)}}) :
         pos \in {OriginalRow(rs, sid, off, result.respondentId)}})

\* for (const respondentResult of batchResultObject) { ... push ... }
AccumulatedRecords(rid, rs, sid, qs, off, norm) ==
    Flatten([j \in 1..Len(norm) |-> QualitativeRecords(rid, rs, sid, qs, off, norm[j])])

\* ------------------------------------------------------------------------
\* Stream messages
\* ------------------------------------------------------------------------
BatchStartMsg(index, total) == [type |-> "batchStart", index |-> index, total |-> total]

ResultMsg(data) == [type |-> "result", data |-> data]

StatsMsg(data) == [type |-> "stats", data |-> data]

SummaryMsg(text) == [type |-> "summary", text |-> text]

ErrorMsg(message, batchIndex) ==
    [type |-> "error", message |-> message, batchIndex |-> batchIndex]

CompleteMsg(n) ==
    [type |-> "complete",
     message |-> "Processing and statistics finished for " \o ToString(n) \o " rows."]

ResultMsgs(norm) == [j \in 1..Len(norm) |-> ResultMsg(norm[j])]

\* ------------------------------------------------------------------------
\* Aggregated statistics: allRunCategorizations.reduce(...)
\* ------------------------------------------------------------------------
EmptyStats == [q \in {} |-> 0]

\* sub_category || SUB_CATEGORY_DEFAULT
SubCategoryKey(sub) == IF sub = None \/ sub[1] = "" THEN SUB_CATEGORY_DEFAULT ELSE sub[1]

\* the key without the sub-category
CombinedCategory_TwoPart(r) == r.topic \o "_" \o r.sentiment

\* `${topic}_${sentiment}_${subCategoryKey}`
CombinedCategory(r) ==
    r.topic \o "_" \o r.sentiment \o "_" \o SubCategoryKey(r.sub_category)

\* the reducer without its guard
StatsStep_NoSkip(acc, r) ==
    LET q     == r.question_text
        key   == CombinedCategory(r)
        old   == IF q \in DOMAIN acc THEN acc[q] ELSE EmptyStats
        count == IF key \in DOMAIN old THEN old[key] ELSE 0
    IN  (q :> ((key :> (count + 1)) @@ old)) @@ acc

\* one call of the reducer
StatsStep(acc, r) ==
    IF r.question_text = "" \/ r.topic = "" \/ r.sentiment = "" THEN acc
    ELSE LET q     == r.question_text
             key   == CombinedCategory(r)
             old   == IF q \in DOMAIN acc THEN acc[q] ELSE EmptyStats
             count == IF key \in DOMAIN old THEN old[key] ELSE 0
         IN  (q :> ((key :> (count + 1)) @@ old)) @@ acc

\* the reducer applied to ledger[lo..hi], left to right, starting from acc (the
\* range is halved to keep the evaluation shallow)
RECURSIVE Reduce(_, _, _, _)
Reduce(acc, ledger, lo, hi) ==
    IF lo > hi THEN acc
    ELSE IF lo = hi THEN The({StatsStep(acc, r) : r \in {ledger[lo]}})
    ELSE The({The({Reduce(left, ledger, mid + 1, hi) :
                       left \in {Reduce(acc, ledger, lo, mid)}}) :
                 mid \in {(lo + hi) \div 2}})

\* ------------------------------------------------------------------------
\* The client (page.tsx): the combined key read back for display
\* ------------------------------------------------------------------------
SENTIMENTS == << "positive", "negative", "neutral", "n/a" >>

\* s.indexOf(t), counted from 1 (0: not found)
IndexOf(s, t) ==
    The({IF hits = {} THEN 0 ELSE CHOOSE k \in hits : \A o \in hits : k <= o :
         hits \in {{k \in 1..(Len(s) - Len(t) + 1) : SubSeq(s, k, k + Len(t) - 1) = t}}})

\* s.substring(from) with from counted from 1
Rest(s, from) == SubSeq(s, from, Len(s))

RECURSIVE UnderscoreRange(_, _, _)
UnderscoreRange(s, lo, hi) ==
    IF lo > hi THEN ""
    ELSE IF lo = hi THEN (IF CharAt(s, lo) = "_" THEN " " ELSE CharAt(s, lo))
    ELSE The({UnderscoreRange(s, lo, mid) \o UnderscoreRange(s, mid + 1, hi) :
                 mid \in {(lo + hi) \div 2}})

\* s.replace(/_/g, ' ')
ReplaceUnderscores(s) == The({UnderscoreRange(v, 1, Len(v)) : v \in {s}})

\* s.split(sep)
RECURSIVE Split(_, _)
Split(s, sep) ==
    The({IF at = 0 THEN << s >>
         ELSE << SubSeq(s, 1, at - 1) >> \o Split(Rest(s, at + Len(sep)), sep) :
         at \in {IndexOf(s, sep)}})

\* parts.join(sep)
RECURSIVE Join(_, _)
Join(parts, sep) ==
    IF Len(parts) = 0 THEN ""
    ELSE IF Len(parts) = 1 THEN parts[1]
    ELSE parts[1] \o sep \o Join(Tail(parts), sep)

\* what the parser shows for a sub-category text: nothing for '' and for the default
ShownSubCategory(subCategoryRaw, otherwise) ==
    IF subCategoryRaw # "" /\ subCategoryRaw # ReplaceUnderscores(SUB_CATEGORY_DEFAULT)
    THEN Some(subCategoryRaw) ELSE otherwise

\* the for loop over SENTIMENTS: the first sentiment whose marker occurs in the key
ParseByMarker(combinedKey) ==
    The({IF Len(found) = 0
         THEN [topic |-> "N/A", sentiment |-> "N/A", subCategory |-> None]
         ELSE The({[topic |-> The({IF t = "" THEN "N/A" ELSE t :
                                      t \in {ReplaceUnderscores(SubSeq(combinedKey, 1, index - 1))}}),
                    sentiment |-> found[1],
                    subCategory |->
                        ShownSubCategory(
                            ReplaceUnderscores(Rest(combinedKey, index + Len(found[1]) + 2)),
                            None)] :
                   index \in {IndexOf(combinedKey, "_" \o found[1] \o "_")}}) :
         found \in {SelectSeq(SENTIMENTS,
                              LAMBDA s : IndexOf(combinedKey, "_" \o s \o "_") # 0)}})

\* parseCombinedCategory: the marker search, then the fallback on split('_')
parseCombinedCategory(combinedKey) ==
    The({IF first.topic # "N/A" THEN first
         ELSE The({[topic |-> IF parts[1] = "" THEN "N/A" ELSE parts[1],
                    sentiment |-> IF Len(parts) < 2 \/ parts[2] = "" THEN "N/A" ELSE parts[2],
                    subCategory |->
                        ShownSubCategory(Join(SubSeq(parts, 3, Len(parts)), " "),
                                         first.subCategory)] :
                   parts \in {Split(combinedKey, "_")}}) :
         first \in {ParseByMarker(combinedKey)}})

\* subCategory || SUB_CATEGORY_DEFAULT.replace(/_/g, ' ')
SubCatKey(parsed) ==
    IF parsed.subCategory = None THEN ReplaceUnderscores(SUB_CATEGORY_DEFAULT)
    ELSE parsed.subCategory[1]

\* the path newGroupedStats[question][topic][sentiment][subCatKey] of a key
GroupPath(combinedKey) ==
    The({<< p.topic, p.sentiment, SubCatKey(p) >> : p \in {parseCombinedCategory(combinedKey)}})

\* the inner forEach of the groupedStats effect for one question: every key whose
\* parse gave a topic and a sentiment is written at its path (no two keys the
\* server builds from normalized values share a path, so no write is overwritten)
GroupedCounts(categoryCounts) ==
    The({[path \in {GroupPath(k) : k \in keys} |->
             categoryCounts[CHOOSE k \in keys : GroupPath(k) = path]] :
         keys \in {{k \in DOMAIN categoryCounts :
                       GroupPath(k)[1] # "N/A" /\ GroupPath(k)[2] # "N/A"}}})

\* the groupedStats effect: statsData regrouped by parsed key
GroupedStats(statsData) ==
    [question \in DOMAIN statsData |-> GroupedCounts(statsData[question])]

\* ------------------------------------------------------------------------
\* The response stream as text: JSON.stringify, the SSE frame, JSON.parse
\* ------------------------------------------------------------------------
\* the JSON escape of one character of a string
JsonEscapedChar(c) ==
    CASE c = "\"" -> "\\\""
      [] c = "\\" -> "\\\\"
      [] c = "\n" -> "\\n"
      [] c = "\t" -> "\\t"
      [] OTHER -> c

RECURSIVE JsonEscapeRange(_, _, _)
JsonEscapeRange(s, lo, hi) ==
    IF lo > hi THEN ""
    ELSE IF lo = hi THEN JsonEscapedChar(CharAt(s, lo))
    ELSE The({JsonEscapeRange(s, lo, mid) \o JsonEscapeRange(s, mid + 1, hi) :
                 mid \in {(lo + hi) \div 2}})

\* the string between quotes as it stands, line breaks included
JsonString_Raw(s) == "\"" \o s \o "\""

\* JSON.stringify of a string
JsonString(s) == The({"\"" \o JsonEscapeRange(v, 1, Len(v)) \o "\"" : v \in {s}})

JsonField(name, valueText) == JsonString(name) \o ":" \o valueText

JsonObject(fields) == "{" \o Join(fields, ",") \o "}"

JsonArray(items) == "[" \o Join(items, ",") \o "]"

\* the elements of a finite set in some order (the order of the keys of an object
\* does not change the value JSON.parse gives back)
RECURSIVE SeqOf(_)
SeqOf(S) ==
    IF S = {} THEN << >>
    ELSE The({<< x >> \o SeqOf(S \ {x}) : x \in {CHOOSE x \in S : TRUE}})

\* a categorization: sub_category is left out when it is undefined
JsonCat(c) ==
    JsonObject(<< JsonField("question", JsonString(c.question)),
                  JsonField("topic", JsonString(c.topic)),
                  JsonField("sentiment", JsonString(c.sentiment)) >> \o
               (IF c.sub_category = None THEN << >>
                ELSE << JsonField("sub_category", JsonString(c.sub_category[1])) >>))

JsonStudent(data) ==
    JsonObject(<< JsonField("respondentId", JsonString(data.respondentId)),
                  JsonField("categorizations",
                            JsonArray([m \in 1..Len(data.categorizations) |->
                                          JsonCat(data.categorizations[m])])) >>)

JsonCounts(categoryCounts) ==
    The({JsonObject([m \in 1..Len(keys) |->
                        JsonField(keys[m], ToString(categoryCounts[keys[m]]))]) :
         keys \in {SeqOf(DOMAIN categoryCounts)}})

JsonStats(stats) ==
    The({JsonObject([m \in 1..Len(questions) |->
                        JsonField(questions[m], JsonCounts(stats[questions[m]]))]) :
         questions \in {SeqOf(DOMAIN stats)}})

\* JSON.stringify(message)
Stringify(message) ==
    CASE message.type = "batchStart" ->
            JsonObject(<< JsonField("type", JsonString(message.type)),
                          JsonField("index", ToString(message.index)),
                          JsonField("total", ToString(message.total)) >>)
      [] message.type = "result" ->
            JsonObject(<< JsonField("type", JsonString(message.type)),
                          JsonField("data", JsonStudent(message.data)) >>)
      [] message.type = "stats" ->
            JsonObject(<< JsonField("type", JsonString(message.type)),
                          JsonField("data", JsonStats(message.data)) >>)
      [] message.type = "summary" ->
            JsonObject(<< JsonField("type", JsonString(message.type)),
                          JsonField("text", JsonString(message.text)) >>)
      [] message.type = "error" ->
            JsonObject(<< JsonField("type", JsonString(message.type)),
                          JsonField("message", JsonString(message.message)) >> \o
                       (IF message.batchIndex = None THEN << >>
                        ELSE << JsonField("batchIndex", ToString(message.batchIndex[1])) >>))
      [] message.type = "complete" ->
            JsonObject(<< JsonField("type", JsonString(message.type)),
                          JsonField("message", JsonString(message.message)) >>)

\* what sendStreamMessage enqueues: `data: ${JSON.stringify(message)}\n\n`
SseFrame(message) == "data: " \o Stringify(message) \o "\n\n"

\* the text of the response body: the frames in the order they were enqueued
Wire(sent) == Join([k \in 1..Len(sent) |-> SseFrame(sent[k])], "")

\* JSON.parse(text) for the messages of a run: the message whose JSON text it is
\* (Some), or a SyntaxError (None) for a text that is not the JSON text of one
JSONParse(text, sent) ==
    The({IF hits = {} THEN None ELSE Some(sent[CHOOSE k \in hits : TRUE]) :
         hits \in {{k \in 1..Len(sent) : Stringify(sent[k]) = text}}})

\* ------------------------------------------------------------------------
\* The client (page.tsx): the reader of the response stream
\* ------------------------------------------------------------------------
\* the state of the page before a file is chosen
ClientIdle ==
    [stage |-> "upload", isError |-> FALSE, isLoading |-> FALSE, statusMessage |-> "",
     highlightedBatchIndex |-> -1, liveResults |-> EmptyStats, statsData |-> None,
     groupedStats |-> None, aiSummary |-> None,
     buffer |-> "", wire |-> "", reading |-> FALSE, handled |-> << >>, cuts |-> {}]

\* `${topic} (${sentiment})` and ` - ${subCategory}`
DisplayCategory(cat) ==
    (IF ReplaceUnderscores(cat.topic) = "" THEN "N/A" ELSE ReplaceUnderscores(cat.topic))
    \o " (" \o (IF cat.sentiment = "" THEN "N/A" ELSE cat.sentiment) \o ")"
    \o (IF cat.sub_category # None /\ cat.sub_category[1] # ""
           /\ cat.sub_category[1] # SUB_CATEGORY_DEFAULT
        THEN " - " \o ReplaceUnderscores(cat.sub_category[1]) ELSE "")

\* currentCategories after categorizations.forEach: the last write of a question stays
CurrentCategories(old, cats) ==
    [q \in DOMAIN old \cup {cats[m].question : m \in 1..Len(cats)} |->
        IF \E m \in 1..Len(cats) : cats[m].question = q
        THEN DisplayCategory(cats[CHOOSE m \in 1..Len(cats) :
                                     /\ cats[m].question = q
                                     /\ \A o \in 1..Len(cats) : cats[o].question = q => o <= m])
        ELSE old[q]]

\* the updater given to setLiveResults
LiveResultsAfter(live, data) ==
    (data.respondentId :>
        CurrentCategories(IF data.respondentId \in DOMAIN live THEN live[data.respondentId]
                          ELSE EmptyStats,
                          data.categorizations)) @@ live

\* the complete case clears the error flag
HandleMessage_CompleteClearsError(c, message) ==
    The({CASE message.type = "batchStart" ->
                [h EXCEPT !.highlightedBatchIndex = message.index - 1,
                          !.statusMessage = "Processing Batch " \o ToString(message.index)
                                            \o " of " \o ToString(message.total) \o "..."]
           [] message.type = "result" ->
                [h EXCEPT !.liveResults = LiveResultsAfter(@, message.data)]
           [] message.type = "stats" ->
                [h EXCEPT !.statsData = Some(message.data),
                          !.groupedStats = Some(GroupedStats(message.data))]
           [] message.type = "summary" ->
                [h EXCEPT !.aiSummary = Some(message.text)]
           [] message.type = "error" ->
                [h EXCEPT !.statusMessage = "Error during processing: " \o message.message,
                          !.isError = TRUE]
           [] message.type = "complete" ->
                [h EXCEPT !.isLoading = FALSE, !.stage = "complete", !.isError = FALSE,
                          !.highlightedBatchIndex = -1, !.reading = FALSE, !.wire = ""] :
         h \in {[c EXCEPT !.handled = Append(@, message)]}})

\* switch (message.type), with the groupedStats effect that follows setStatsData
HandleMessage(c, message) ==
    The({CASE message.type = "batchStart" ->
                [h EXCEPT !.highlightedBatchIndex = message.index - 1,
                          !.statusMessage = "Processing Batch " \o ToString(message.index)
                                            \o " of " \o ToString(message.total) \o "..."]
           [] message.type = "result" ->
                [h EXCEPT !.liveResults = LiveResultsAfter(@, message.data)]
           [] message.type = "stats" ->
                [h EXCEPT !.statsData = Some(message.data),
                          !.groupedStats = Some(GroupedStats(message.data))]
           [] message.type = "summary" ->
                [h EXCEPT !.aiSummary = Some(message.text)]
           [] message.type = "error" ->
                [h EXCEPT !.statusMessage = "Error during processing: " \o message.message,
                          !.isError = TRUE]
           [] message.type = "complete" ->
                [h EXCEPT !.isLoading = FALSE, !.stage = "complete",
                          !.highlightedBatchIndex = -1, !.reading = FALSE, !.wire = ""] :
         h \in {[c EXCEPT !.handled = Append(@, message)]}})

\* one line of buffer.split('\n\n'): lines that do not start with 'data: ' are
\* passed over, a JSON.parse that throws is caught and logged
HandleLine(c, line, sent) ==
    IF Len(line) < 6 \/ SubSeq(line, 1, 6) # "data: " THEN c
    ELSE The({IF message = None THEN c ELSE HandleMessage(c, message[1]) :
                 message \in {JSONParse(Rest(line, 7), sent)}})

\* for (const line of lines), left at the return of the complete case
RECURSIVE HandleLines(_, _, _, _)
HandleLines(c, lines, k, sent) ==
    IF k > Len(lines) \/ ~c.reading THEN c
    ELSE The({HandleLines(next, lines, k + 1, sent) :
                 next \in {HandleLine(c, lines[k], sent)}})

\* where a chunk of n characters ends: between the two line breaks of a
\* separator, elsewhere inside a frame, or at the end of a frame
CutKind(wire, n) ==
    IF n >= Len(wire) THEN "frame"
    ELSE IF SubSeq(wire, n, n + 1) = "\n\n" THEN "separator"
    ELSE IF n >= 2 /\ SubSeq(wire, n - 1, n) = "\n\n" THEN "frame"
    ELSE "event"

\* one turn of the while loop with a chunk of n characters: the chunk is decoded
\* and appended to buffer, the buffer is split and its last piece kept
ReadChunk(c, n, sent) ==
    The({The({HandleLines([c EXCEPT !.buffer = lines[Len(lines)],
                                    !.wire = Rest(c.wire, n + 1),
                                    !.cuts = @ \cup {CutKind(c.wire, n)}],
                          SubSeq(lines, 1, Len(lines) - 1), 1, sent) :
              lines \in {Split(text, "\n\n")}}) :
         text \in {c.buffer \o SubSeq(c.wire, 1, n)}})

\* ------------------------------------------------------------------------
\* State
\* ------------------------------------------------------------------------
VARIABLES
    useMockLlm,              \* process.env.USE_MOCK_LLM === 'true'
    client,                  \* the page: its React state and the reader of the stream
    sheet,                   \* the rows parsed from the uploaded file
    pc,                      \* where the pipeline stands
    proposed,                \* the mapping the capability proposed to /api/analyze
    aStatus,                 \* HTTP status of the last /api/analyze response (0: none)
    aDetails,                \* which error the last /api/analyze response carries
    aInvalid,                \* the headers named by a validation error
    runId,                   \* run id returned by /api/analyze
    mapping,                 \* proposedMapping returned, then confirmedMapping
    rows,                    \* rows returned by /api/analyze, then sent to /api/process
    i,                       \* offset of the current batch
    batchPrompt,             \* prompt of the outstanding classification call
    allRunCategorizations,   \* the run's ledger
    identifiedTopics,        \* insertion-ordered Set
    identifiedSubCategories, \* insertion-ordered Set
    runStats,
    summaryText,
    events,                  \* messages enqueued on the response stream
    streamState,             \* "none", "open", "cancelled" (by the reader), "closed"
    store,                   \* processing_runs, keyed by run_id
    outcome,                 \* per batch: "skipped", "ok" or "threw" (qualitative pass)
    posts,                   \* number of requests /api/process has received
    written,                 \* history: the upserts that succeeded, oldest first
    response                 \* the response to the latest retrieval since the latest post

vars == << useMockLlm, client, sheet, pc, proposed, aStatus, aDetails, aInvalid, runId, mapping,
           rows, i, batchPrompt, allRunCategorizations, identifiedTopics,
           identifiedSubCategories, runStats, summaryText, events, streamState,
           store, outcome, posts, written, response >>

analyzeVars == << proposed, aStatus, aDetails, aInvalid, runId, mapping, rows >>

runVars == << i, batchPrompt, allRunCategorizations, identifiedTopics,
              identifiedSubCategories, runStats, summaryText, outcome >>

\* the accumulator is the one the previous write left behind
ComputeRunStats_Accumulating(ledger) ==
    Reduce(IF written = << >> THEN EmptyStats ELSE written[Len(written)].results.statistics,
           ledger, 1, Len(ledger))

\* allRunCategorizations.reduce(..., {})
ComputeRunStats(ledger) == Reduce(EmptyStats, ledger, 1, Len(ledger))

NoMapping == [studentIdHeader |-> "", questionHeaders |-> << >>]

\* no retrieval has been answered
NoResponse == [route |-> "", runId |-> "", status |-> 0, error |-> "", body |-> << >>]

Init ==
    /\ useMockLlm \in BOOLEAN
    /\ client = ClientIdle
    /\ \E kind \in SheetKinds, n \in RowCounts : sheet = Sheet(kind, n)
    /\ pc = "upload"
    /\ proposed = NoProposal
    /\ aStatus = 0
    /\ aDetails = ""
    /\ aInvalid = << >>
    /\ runId = ""
    /\ mapping = NoMapping
    /\ rows = << >>
    /\ i = 0
    /\ batchPrompt = NoPrompt
    /\ allRunCategorizations = << >>
    /\ identifiedTopics = << >>
    /\ identifiedSubCategories = << >>
    /\ runStats = EmptyStats
    /\ summaryText = ""
    /\ events = << >>
    /\ streamState = "none"
    /\ store = [r \in {} |-> 0]
    /\ outcome = << >>
    /\ posts = 0
    /\ written = << >>
    /\ response = NoResponse

\* ------------------------------------------------------------------------
\* /api/analyze (one action per way the handler returns)
\* ------------------------------------------------------------------------
\* rows.length === 0: 400
AnalyzeEmptySheet ==
    /\ pc = "upload"
    /\ Len(sheet) = 0
    /\ aStatus' = 400
    /\ aDetails' = "empty"
    /\ UNCHANGED << useMockLlm, client, sheet, response, written, posts, pc, proposed, aInvalid, runId, mapping, rows,
                    events, streamState, store >>
    /\ UNCHANGED runVars

\* generateObject (or anything before it inside the try) throws: 500
AnalyzeThrows ==
    /\ pc = "upload"
    /\ Len(sheet) > 0
    /\ aStatus' = 500
    /\ aDetails' = "inference"
    /\ aInvalid' = << >>
    /\ proposed' = NoProposal
    /\ UNCHANGED << useMockLlm, client, sheet, response, written, posts, pc, runId, mapping, rows, events, streamState, store >>
    /\ UNCHANGED runVars

\* the capability proposes p and validation throws: 500 naming the invalid headers
AnalyzeRejectsMapping ==
    /\ pc = "upload"
    /\ Len(sheet) > 0
    /\ \E p \in Proposals :
        LET v == ValidateMapping(p, sheet)
        IN  /\ v.status = 500
            /\ proposed' = p
            /\ aStatus' = 500
            /\ aDetails' = "validation"
            /\ aInvalid' = v.invalid
    /\ UNCHANGED << useMockLlm, client, sheet, response, written, posts, pc, runId, mapping, rows, events, streamState, store >>
    /\ UNCHANGED runVars

\* the capability proposes p and validation passes: { runId, proposedMapping, rows }
AnalyzeReturnsMapping ==
    /\ pc = "upload"
    /\ Len(sheet) > 0
    /\ \E p \in Proposals :
        LET v == ValidateMapping(p, sheet)
        IN  /\ v.status = 200
            /\ proposed' = p
            /\ aStatus' = 200
            /\ aDetails' = ""
            /\ aInvalid' = << >>
            /\ runId' = "run-1"
            /\ mapping' = v.mapping
            /\ rows' = v.rows
    /\ pc' = "confirm"
    /\ UNCHANGED << useMockLlm, client, sheet, response, written, posts, events, streamState, store >>
    /\ UNCHANGED runVars

\* ------------------------------------------------------------------------
\* /api/process
\* ------------------------------------------------------------------------
Request == [runId |-> runId, confirmedMapping |-> Some(mapping), rows |-> Some(rows)]

\* handleConfirmMapping posts the analyze result unchanged; the payload is invalid: 400
ProcessRejectsRequest ==
    /\ pc = "confirm"
    /\ ~ValidRequest(Request)
    /\ pc' = "rejected"
    /\ posts' = posts + 1
    /\ proposed' = NoProposal
    /\ UNCHANGED << useMockLlm, client, sheet, response, written, aStatus, aDetails, aInvalid, runId, mapping, rows,
                    events, streamState, store >>
    /\ UNCHANGED runVars

\* the payload is valid: the stream is created and start(controller) begins
ProcessOpensStream ==
    /\ pc = "confirm"
    /\ ValidRequest(Request)
    /\ pc' = "setup"
    /\ streamState' = "open"
    /\ posts' = posts + 1
    /\ proposed' = NoProposal
    /\ UNCHANGED << useMockLlm, client, sheet, response, written, aStatus, aDetails, aInvalid, runId, mapping, rows,
                    events, store >>
    /\ UNCHANGED runVars

\* getSupabaseCredentials / createClient throw: the setup catch
SetupFails ==
    /\ pc = "setup"
    /\ events' = Append(events, ErrorMsg("Server error", None))
    /\ streamState' = "closed"
    /\ pc' = "failed"
    /\ UNCHANGED << useMockLlm, client, sheet, response, written, posts, store >>
    /\ UNCHANGED analyzeVars
    /\ UNCHANGED runVars

SetupSucceeds ==
    /\ pc = "setup"
    /\ pc' = "loop"
    /\ i' = 0
    /\ allRunCategorizations' = << >>
    /\ identifiedTopics' = << >>
    /\ identifiedSubCategories' = << >>
    /\ UNCHANGED << useMockLlm, client, sheet, response, written, posts, events, streamState, store, batchPrompt, runStats,
                    summaryText, outcome >>
    /\ UNCHANGED analyzeVars

\* the qualitative pass is needed for the batch at offset i
NeedsCapability ==
    /\ Len(qualitativeQuestions(mapping.questionHeaders)) > 0
    /\ qualitativeDataExistsInBatch(rows, mapping.questionHeaders, i)

\* what every iteration does first: batchStart and the categorical pass
BatchHead ==
    /\ pc = "loop"
    /\ i < Len(rows)
    /\ events' = Append(events, BatchStartMsg(BatchNumber(i), TotalBatches(Len(rows))))
    /\ allRunCategorizations' = allRunCategorizations \o
           CategoricalPass(runId, rows, mapping.studentIdHeader, mapping.questionHeaders, i)

\* the call is started and the loop goes on without awaiting it
BatchCallsCapability_NoAwait ==
    /\ BatchHead
    /\ NeedsCapability
    /\ batchPrompt' = BatchPrompt(rows, mapping.studentIdHeader, mapping.questionHeaders, i,
                                  identifiedTopics, identifiedSubCategories)
    /\ i' = i + BATCH_SIZE
    /\ UNCHANGED << useMockLlm, client, sheet, response, written, posts, streamState, store, pc,
                    identifiedTopics, identifiedSubCategories, runStats, summaryText,
                    outcome >>
    /\ UNCHANGED analyzeVars

\* an iteration up to the awaited classification call
BatchCallsCapability ==
    /\ BatchHead
    /\ NeedsCapability
    /\ batchPrompt' = BatchPrompt(rows, mapping.studentIdHeader, mapping.questionHeaders, i,
                                  identifiedTopics, identifiedSubCategories)
    /\ pc' = "awaitLLM"
    /\ UNCHANGED << useMockLlm, client, sheet, response, written, posts, streamState, store, i, identifiedTopics,
                    identifiedSubCategories, runStats, summaryText, outcome >>
    /\ UNCHANGED analyzeVars

\* an iteration that skips the classification call
BatchSkipsCapability ==
    /\ BatchHead
    /\ ~NeedsCapability
    /\ outcome' = Append(outcome, "skipped")
    /\ i' = i + BATCH_SIZE
    /\ UNCHANGED << useMockLlm, client, sheet, response, written, posts, streamState, store, pc, batchPrompt, identifiedTopics,
                    identifiedSubCategories, runStats, summaryText >>
    /\ UNCHANGED analyzeVars

\* the call resolves: normalization, result messages, accumulation
CapabilityResolves ==
    /\ pc = "awaitLLM"
    /\ streamState = "open"
    /\ \E resp \in (IF useMockLlm THEN {MockResponse(batchPrompt)}
                    ELSE LLMResponses(batchPrompt, mapping.questionHeaders)) :
        \E norm \in {NormalizeResponse(resp)} :
            /\ identifiedTopics' = TopicsAfter(identifiedTopics, norm)
            /\ identifiedSubCategories' = SubCategoriesAfter(identifiedSubCategories, norm)
            /\ events' = events \o ResultMsgs(norm)
            /\ allRunCategorizations' = allRunCategorizations \o
                   AccumulatedRecords(runId, rows, mapping.studentIdHeader,
                                      mapping.questionHeaders, i, norm)
    /\ outcome' = Append(outcome, "ok")
    /\ i' = i + BATCH_SIZE
    /\ pc' = "loop"
    /\ UNCHANGED << useMockLlm, client, sheet, response, written, posts, streamState, store, batchPrompt, runStats, summaryText >>
    /\ UNCHANGED analyzeVars

\* the rejection handled as the setup catch handles an error: the run ends
CapabilityRejects_Fatal ==
    /\ pc = "awaitLLM"
    /\ streamState = "open"
    /\ ~useMockLlm
    /\ events' = Append(events, ErrorMsg("Server error", None))
    /\ outcome' = Append(outcome, "threw")
    /\ streamState' = "closed"
    /\ pc' = "failed"
    /\ UNCHANGED << useMockLlm, client, sheet, response, written, posts, store, i, batchPrompt, allRunCategorizations,
                    identifiedTopics, identifiedSubCategories, runStats, summaryText >>
    /\ UNCHANGED analyzeVars

\* the records of the first respondent are pushed before the pass fails
CapabilityRejects_Partial ==
    /\ pc = "awaitLLM"
    /\ streamState = "open"
    /\ ~useMockLlm
    /\ events' = Append(events,
           ErrorMsg("Processing error in batch " \o ToString(BatchNumber(i)),
                    Some(BatchNumber(i))))
    /\ \E norm \in {NormalizeResponse(FirstResponse(batchPrompt, mapping.questionHeaders))} :
           allRunCategorizations' = allRunCategorizations \o
               AccumulatedRecords(runId, rows, mapping.studentIdHeader,
                                  mapping.questionHeaders, i, norm)
    /\ outcome' = Append(outcome, "threw")
    /\ i' = i + BATCH_SIZE
    /\ pc' = "loop"
    /\ UNCHANGED << useMockLlm, client, sheet, response, written, posts, streamState, store,
                    batchPrompt, identifiedTopics, identifiedSubCategories, runStats,
                    summaryText >>
    /\ UNCHANGED analyzeVars

\* the call rejects (network, schema mismatch): the per-batch catch
CapabilityRejects ==
    /\ pc = "awaitLLM"
    /\ streamState = "open"
    /\ ~useMockLlm
    /\ events' = Append(events,
           ErrorMsg("Processing error in batch " \o ToString(BatchNumber(i)),
                    Some(BatchNumber(i))))
    /\ outcome' = Append(outcome, "threw")
    /\ i' = i + BATCH_SIZE
    /\ pc' = "loop"
    /\ UNCHANGED << useMockLlm, client, sheet, response, written, posts, streamState, store, batchPrompt, allRunCategorizations,
                    identifiedTopics, identifiedSubCategories, runStats, summaryText >>
    /\ UNCHANGED analyzeVars

\* after the loop: the statistics are folded and sent
StatsHead ==
    /\ pc = "loop"
    /\ i >= Len(rows)
    /\ runStats' = ComputeRunStats(allRunCategorizations)

\* Object.keys(runStats).length > 0 && !useMockLlm: generateText is awaited
StatsThenSummaryCall ==
    /\ ~useMockLlm
    /\ StatsHead
    /\ runStats' # EmptyStats
    /\ events' = Append(events, StatsMsg(runStats'))
    /\ summaryText' = DEFAULT_SUMMARY
    /\ pc' = "awaitSummary"
    /\ UNCHANGED << useMockLlm, client, sheet, response, written, posts, streamState, store, i, batchPrompt,
                    allRunCategorizations, identifiedTopics, identifiedSubCategories, outcome >>
    /\ UNCHANGED analyzeVars

\* else if (useMockLlm)
StatsThenMockSummary ==
    /\ useMockLlm
    /\ StatsHead
    /\ summaryText' = MOCK_SUMMARY
    /\ events' = events \o << StatsMsg(runStats'), SummaryMsg(MOCK_SUMMARY) >>
    /\ pc' = "awaitUpsert"
    /\ UNCHANGED << useMockLlm, client, sheet, response, written, posts, streamState, store, i, batchPrompt,
                    allRunCategorizations, identifiedTopics, identifiedSubCategories, outcome >>
    /\ UNCHANGED analyzeVars

\* else: no statistics, the default text is sent
StatsThenDefaultSummary ==
    /\ ~useMockLlm
    /\ StatsHead
    /\ runStats' = EmptyStats
    /\ summaryText' = DEFAULT_SUMMARY
    /\ events' = events \o << StatsMsg(runStats'), SummaryMsg(DEFAULT_SUMMARY) >>
    /\ pc' = "awaitUpsert"
    /\ UNCHANGED << useMockLlm, client, sheet, response, written, posts, streamState, store, i, batchPrompt,
                    allRunCategorizations, identifiedTopics, identifiedSubCategories, outcome >>
    /\ UNCHANGED analyzeVars

\* a text with a blank line in it
AI_SUMMARY == "- **Most** feedback is positive.\n\n- Buses are late."

SummaryResolves ==
    /\ pc = "awaitSummary"
    /\ streamState = "open"
    /\ summaryText' = AI_SUMMARY
    /\ events' = Append(events, SummaryMsg(AI_SUMMARY))
    /\ pc' = "awaitUpsert"
    /\ UNCHANGED << useMockLlm, client, sheet, response, written, posts, streamState, store, i, batchPrompt,
                    allRunCategorizations, identifiedTopics, identifiedSubCategories,
                    runStats, outcome >>
    /\ UNCHANGED analyzeVars

\* the failure handled as the setup catch handles an error: the run ends
SummaryRejects_Fatal ==
    /\ pc = "awaitSummary"
    /\ streamState = "open"
    /\ events' = Append(events, ErrorMsg("Failed to generate AI summary", None))
    /\ streamState' = "closed"
    /\ pc' = "failed"
    /\ UNCHANGED << useMockLlm, client, sheet, response, written, posts, store, i, batchPrompt,
                    allRunCategorizations, identifiedTopics, identifiedSubCategories,
                    runStats, summaryText, outcome >>
    /\ UNCHANGED analyzeVars

\* catch (summaryError): an error message, the default text is kept
SummaryRejects ==
    /\ pc = "awaitSummary"
    /\ streamState = "open"
    /\ events' = Append(events, ErrorMsg("Failed to generate AI summary", None))
    /\ pc' = "awaitUpsert"
    /\ UNCHANGED << useMockLlm, client, sheet, response, written, posts, streamState, store, i, batchPrompt,
                    allRunCategorizations, identifiedTopics, identifiedSubCategories,
                    runStats, summaryText, outcome >>
    /\ UNCHANGED analyzeVars

finalRunData ==
    [categorizations |-> allRunCategorizations,
     statistics |-> runStats,
     summary |-> summaryText]

\* the conflicting row is kept as it is
Upsert_KeepsFirst(st, rid, results) ==
    [r \in DOMAIN st \cup {rid} |->
        IF r \in DOMAIN st THEN st[r]
        ELSE [results |-> results, status |-> "completed", mapping |-> Null]]

\* the upsert writes a mapping column too
Upsert_WithMapping(st, rid, results) ==
    [r \in DOMAIN st \cup {rid} |->
        IF r = rid
        THEN [results |-> results, status |-> "completed",
              mapping |-> [studentIdHeader |-> "Email", questionHeaders |-> << >>]]
        ELSE st[r]]

\* upsert({run_id, results, status}, {onConflict: 'run_id'}): the two columns are
\* written, the other columns of a row that exists are kept
Upsert(st, rid, results) ==
    [r \in DOMAIN st \cup {rid} |->
        IF r = rid
        THEN [results |-> results, status |-> "completed",
              mapping |-> IF rid \in DOMAIN st THEN st[rid].mapping ELSE Null]
        ELSE st[r]]

\* the upsert succeeds, then complete and controller.close()
UpsertSucceeds ==
    /\ pc = "awaitUpsert"
    /\ store' = Upsert(store, runId, finalRunData)
    /\ written' = Append(written, [request |-> posts, run_id |-> runId,
                                   results |-> finalRunData])
    /\ IF streamState = "open"
       THEN /\ events' = Append(events, CompleteMsg(Len(rows)))
            /\ streamState' = "closed"
            /\ pc' = "done"
       ELSE /\ pc' = "aborted"
            /\ UNCHANGED << events, streamState >>
    /\ UNCHANGED << useMockLlm, client, sheet, response, posts >>
    /\ UNCHANGED analyzeVars
    /\ UNCHANGED runVars

\* the save error handled as the setup catch handles an error: no complete
UpsertFails_NoComplete ==
    /\ pc = "awaitUpsert"
    /\ IF streamState = "open"
       THEN /\ events' = Append(events, ErrorMsg("Failed to save final results", None))
            /\ streamState' = "closed"
            /\ pc' = "done"
       ELSE /\ pc' = "aborted"
            /\ UNCHANGED << events, streamState >>
    /\ UNCHANGED << useMockLlm, client, sheet, response, written, posts, store >>
    /\ UNCHANGED analyzeVars
    /\ UNCHANGED runVars

\* complete is sent before the save error
UpsertFails_CompleteFirst ==
    /\ pc = "awaitUpsert"
    /\ IF streamState = "open"
       THEN /\ events' = events \o << CompleteMsg(Len(rows)),
                                      ErrorMsg("Failed to save final results", None) >>
            /\ streamState' = "closed"
            /\ pc' = "done"
       ELSE /\ pc' = "aborted"
            /\ UNCHANGED << events, streamState >>
    /\ UNCHANGED << useMockLlm, client, sheet, response, written, posts, store >>
    /\ UNCHANGED analyzeVars
    /\ UNCHANGED runVars

\* the upsert returns an error or throws: catch (saveError), then complete
UpsertFails ==
    /\ pc = "awaitUpsert"
    /\ IF streamState = "open"
       THEN /\ events' = events \o << ErrorMsg("Failed to save final results", None),
                                      CompleteMsg(Len(rows)) >>
            /\ streamState' = "closed"
            /\ pc' = "done"
       ELSE /\ pc' = "aborted"
            /\ UNCHANGED << events, streamState >>
    /\ UNCHANGED << useMockLlm, client, sheet, response, written, posts, store >>
    /\ UNCHANGED analyzeVars
    /\ UNCHANGED runVars

\* ------------------------------------------------------------------------
\* The reader of the response stream goes away while the handler awaits
\* ------------------------------------------------------------------------
ConsumerCancels ==
    /\ pc \in {"awaitLLM", "awaitSummary", "awaitUpsert"}
    /\ streamState = "open"
    /\ streamState' = "cancelled"
    /\ UNCHANGED << useMockLlm, client, sheet, response, written, posts, pc, events, store >>
    /\ UNCHANGED analyzeVars
    /\ UNCHANGED runVars

\* the awaited call settles; the next controller.enqueue throws, in the catch
\* blocks too, and start() rejects before anything else is pushed or written
EnqueueThrows ==
    /\ pc \in {"awaitLLM", "awaitSummary"}
    /\ streamState = "cancelled"
    /\ pc' = "aborted"
    /\ UNCHANGED << useMockLlm, client, sheet, response, written, posts, events, streamState, store >>
    /\ UNCHANGED analyzeVars
    /\ UNCHANGED runVars

\* ------------------------------------------------------------------------
\* Specifications
\* ------------------------------------------------------------------------
Next ==
    \/ AnalyzeEmptySheet
    \/ AnalyzeThrows
    \/ AnalyzeRejectsMapping
    \/ AnalyzeReturnsMapping
    \/ ProcessRejectsRequest
    \/ ProcessOpensStream
    \/ SetupFails
    \/ SetupSucceeds
    \/ BatchCallsCapability
    \/ BatchSkipsCapability
    \/ CapabilityResolves
    \/ CapabilityRejects
    \/ StatsThenSummaryCall
    \/ StatsThenMockSummary
    \/ StatsThenDefaultSummary
    \/ SummaryResolves
    \/ SummaryRejects
    \/ UpsertSucceeds
    \/ UpsertFails

Spec == Init /\ [][Next]_vars

\* every awaited call settles and synchronous code runs on
FairSpec == Spec /\ WF_vars(Next)

NextWithCancel == Next \/ ConsumerCancels \/ EnqueueThrows

SpecWithCancel == Init /\ [][NextWithCancel]_vars

\* ------------------------------------------------------------------------
\* The statistics block throws
\* ------------------------------------------------------------------------
\* the statistics computed so far are kept
StatsFails_KeepsStats ==
    /\ pc = "loop"
    /\ i >= Len(rows)
    /\ streamState = "open"
    /\ runStats' = ComputeRunStats(allRunCategorizations)
    /\ summaryText' = IF useMockLlm THEN MOCK_SUMMARY ELSE DEFAULT_SUMMARY
    /\ events' = events \o << ErrorMsg("Failed to calculate statistics", None),
                               SummaryMsg(summaryText') >>
    /\ pc' = "awaitUpsert"
    /\ UNCHANGED << useMockLlm, client, sheet, response, written, posts, streamState, store, i,
                    batchPrompt, allRunCategorizations, identifiedTopics,
                    identifiedSubCategories, outcome >>
    /\ UNCHANGED analyzeVars

\* catch (statsCalcError): an error message and runStats = {}; with no statistics
\* the summary call is skipped and the mock or the default text is sent
StatsFails ==
    /\ pc = "loop"
    /\ i >= Len(rows)
    /\ streamState = "open"
    /\ runStats' = EmptyStats
    /\ summaryText' = IF useMockLlm THEN MOCK_SUMMARY ELSE DEFAULT_SUMMARY
    /\ events' = events \o << ErrorMsg("Failed to calculate statistics", None),
                               SummaryMsg(summaryText') >>
    /\ pc' = "awaitUpsert"
    /\ UNCHANGED << useMockLlm, client, sheet, response, written, posts, streamState, store, i,
                    batchPrompt, allRunCategorizations, identifiedTopics,
                    identifiedSubCategories, outcome >>
    /\ UNCHANGED analyzeVars

NextWithStatsFailure == Next \/ StatsFails

SpecWithStatsFailure == Init /\ [][NextWithStatsFailure]_vars

\* ------------------------------------------------------------------------
\* /api/process called by any client, and the two retrieval routes
\* ------------------------------------------------------------------------
\* the requests one behaviour may post
MaxPosts == 2

\* confirmedMapping || { studentIdHeader: '', questionHeaders: [] }
Default(v, d) == IF v = None THEN d ELSE v[1]

GoodMapping ==
    [studentIdHeader |-> "Email",
     questionHeaders |-> << QH("Rating", TRUE), QH("Comments", FALSE) >>]

PostedMappings ==
    {None, Some(NoMapping), Some([GoodMapping EXCEPT !.studentIdHeader = ""]),
     Some([GoodMapping EXCEPT !.questionHeaders = << >>]),
     Some([GoodMapping EXCEPT !.questionHeaders = << QH("Rating", TRUE) >>]),
     Some(GoodMapping)}

PostedRows == {None, Some(<< >>), Some(Sheet("text", 1))}

\* the bodies posted to /api/process
Bodies == [runId : {"", "run-1"}, confirmedMapping : PostedMappings, rows : PostedRows]

\* no request is being handled
Idle == pc \in {"upload", "rejected", "failed", "done", "aborted"}

\* const { runId, confirmedMapping, rows } = requestData, and the locals of a
\* new invocation of the handler
Receive(body) ==
    /\ Idle
    /\ posts < MaxPosts
    /\ posts' = posts + 1
    /\ runId' = body.runId
    /\ mapping' = Default(body.confirmedMapping, NoMapping)
    /\ rows' = Default(body.rows, << >>)
    /\ events' = << >>
    /\ i' = 0
    /\ batchPrompt' = NoPrompt
    /\ allRunCategorizations' = << >>
    /\ identifiedTopics' = << >>
    /\ identifiedSubCategories' = << >>
    /\ runStats' = EmptyStats
    /\ summaryText' = ""
    /\ outcome' = << >>
    /\ response' = NoResponse
    /\ UNCHANGED << useMockLlm, client, sheet, proposed, aStatus, aDetails, aInvalid, store, written >>

\* the payload is invalid: 400, no stream
PostRejected ==
    \E body \in Bodies :
        /\ ~ValidRequest(body)
        /\ Receive(body)
        /\ pc' = "rejected"
        /\ streamState' = "none"

\* the payload is valid: the stream is created and start(controller) begins
PostOpensStream ==
    \E body \in Bodies :
        /\ ValidRequest(body)
        /\ Receive(body)
        /\ pc' = "setup"
        /\ streamState' = "open"

\* rows of processing_runs written before, by this program or by another writer
OldResults ==
    [categorizations |-> << >>, statistics |-> EmptyStats, summary |-> "An earlier summary."]

StoredBefore ==
    ("old-1" :> [results |-> OldResults, status |-> "completed", mapping |-> GoodMapping])
    @@ ("old-2" :> [results |-> [statistics |-> EmptyStats, summary |-> "No ledger."],
                    status |-> "completed", mapping |-> Null])
    @@ ("old-3" :> [results |-> [categorizations |-> << >>, summary |-> "No statistics."],
                    status |-> "completed", mapping |-> Null])
    @@ ("old-4" :> [results |-> Null, status |-> "processing", mapping |-> Null])

\* searchParams.get('runId'): "" stands for a request without the parameter
RetrievedIds == {"", "run-1", "run-2", "old-1", "old-2", "old-3", "old-4"}

ErrorResponse(route, rid, status, error) ==
    [route |-> route, runId |-> rid, status |-> status, error |-> error, body |-> None]

\* GET /api/get-results, the route that selects results only
GetResultsResponse(st, rid, dbFails) ==
    CASE rid = "" -> ErrorResponse("results", rid, 400, "Missing runId parameter")
      [] rid # "" /\ dbFails -> ErrorResponse("results", rid, 500, "Database error")
      [] rid # "" /\ ~dbFails /\ rid \notin DOMAIN st ->
            ErrorResponse("results", rid, 404, "Results not found (no data obj)")
      [] rid # "" /\ ~dbFails /\ rid \in DOMAIN st ->
            IF st[rid].results = Null
            THEN ErrorResponse("results", rid, 404,
                               "Results not found (results field empty/missing)")
            ELSE [route |-> "results", runId |-> rid, status |-> 200, error |-> "",
                  body |-> Some(st[rid].results)]

\* GET /api/get-results, the route that selects results, mapping, created_at
GetResultsWithMappingResponse(st, rid, dbFails) ==
    CASE rid = "" -> ErrorResponse("mapping", rid, 400, "Missing runId parameter")
      [] rid # "" /\ dbFails -> ErrorResponse("mapping", rid, 500, "Failed to fetch results")
      [] rid # "" /\ ~dbFails /\ rid \notin DOMAIN st ->
            ErrorResponse("mapping", rid, 404, "Results not found for the given Run ID.")
      [] rid # "" /\ ~dbFails /\ rid \in DOMAIN st ->
            IF st[rid].results = Null \/ st[rid].mapping = Null
            THEN ErrorResponse("mapping", rid, 500, "Incomplete results data found.")
            ELSE [route |-> "mapping", runId |-> rid, status |-> 200, error |-> "",
                  body |-> Some([runId |-> rid, results |-> st[rid].results,
                                 mapping |-> st[rid].mapping])]

\* the page retrieves the results of a run that completed; any client may before
GetResults ==
    /\ pc \in {"upload", "done"}
    /\ \E rid \in RetrievedIds, dbFails \in BOOLEAN :
           response' = GetResultsResponse(store, rid, dbFails)
    /\ UNCHANGED << useMockLlm, client, sheet, pc, events, streamState, store, posts, written >>
    /\ UNCHANGED analyzeVars
    /\ UNCHANGED runVars

GetResultsWithMapping ==
    /\ pc \in {"upload", "done"}
    /\ \E rid \in RetrievedIds, dbFails \in BOOLEAN :
           response' = GetResultsWithMappingResponse(store, rid, dbFails)
    /\ UNCHANGED << useMockLlm, client, sheet, pc, events, streamState, store, posts, written >>
    /\ UNCHANGED analyzeVars
    /\ UNCHANGED runVars

ApiInit ==
    /\ useMockLlm \in BOOLEAN
    /\ client = ClientIdle
    /\ sheet = << >>
    /\ pc = "upload"
    /\ proposed = NoProposal
    /\ aStatus = 0
    /\ aDetails = ""
    /\ aInvalid = << >>
    /\ runId = ""
    /\ mapping = NoMapping
    /\ rows = << >>
    /\ i = 0
    /\ batchPrompt = NoPrompt
    /\ allRunCategorizations = << >>
    /\ identifiedTopics = << >>
    /\ identifiedSubCategories = << >>
    /\ runStats = EmptyStats
    /\ summaryText = ""
    /\ events = << >>
    /\ streamState = "none"
    /\ store = StoredBefore
    /\ outcome = << >>
    /\ posts = 0
    /\ written = << >>
    /\ response = NoResponse

ApiNext ==
    \/ PostRejected
    \/ PostOpensStream
    \/ SetupFails
    \/ SetupSucceeds
    \/ BatchCallsCapability
    \/ BatchSkipsCapability
    \/ CapabilityResolves
    \/ CapabilityRejects
    \/ StatsThenSummaryCall
    \/ StatsThenMockSummary
    \/ StatsThenDefaultSummary
    \/ SummaryResolves
    \/ SummaryRejects
    \/ UpsertSucceeds
    \/ UpsertFails
    \/ GetResults
    \/ GetResultsWithMapping

ApiSpec == ApiInit /\ [][ApiNext]_vars

TypeOK ==
    /\ pc \in {"upload", "confirm", "rejected", "setup", "failed", "loop", "awaitLLM",
               "awaitSummary", "awaitUpsert", "done", "aborted"}
    /\ streamState \in {"none", "open", "cancelled", "closed"}
    /\ i % BATCH_SIZE = 0

\* ------------------------------------------------------------------------
\* Helpers for the properties
\* ------------------------------------------------------------------------
\* the positions of the messages of one type
Positions(type) == {k \in 1..Len(events) : events[k].type = type}

\* the number of messages of one type at or before position k
CountUpTo(type, k) == Cardinality({m \in 1..k : events[m].type = type})

\* ceil(n / b), from its defining inequalities
CeilDiv(n, b) == CHOOSE c \in 0..n : c * b >= n /\ (c = 0 \/ (c - 1) * b < n)

\* the batch loop has ended
LoopEnded == pc \in {"awaitSummary", "awaitUpsert", "done"}

\* the batch loop is running or has ended
Streaming == pc \in {"loop", "awaitLLM", "awaitSummary", "awaitUpsert", "done"}

\* ------------------------------------------------------------------------
\* C1: a run over N rows with batch size B emits exactly ceil(N/B) batchStart
\* messages, indexed 1, 2, ... in order; the result messages of a batch lie
\* between its batchStart and the next one; every batchStart precedes stats.
\* ------------------------------------------------------------------------
C1_IndicesCountUp ==
    \A k \in Positions("batchStart") :
        /\ events[k].index = CountUpTo("batchStart", k)
        /\ events[k].total = CeilDiv(Len(rows), BATCH_SIZE)

C1_ExactCount ==
    LoopEnded => Cardinality(Positions("batchStart")) = CeilDiv(Len(rows), BATCH_SIZE)

C1_NothingAfterStats ==
    /\ \A k \in Positions("stats") : \A m \in Positions("batchStart") \cup Positions("result") : m < k
    /\ LoopEnded => Positions("stats") # {}

\* result messages are sent only while the call of the batch announced last is
\* outstanding, and that batch is the one at the loop offset
C1_ResultsOfOpenBatch ==
    (\E k \in (Len(events) + 1)..Len(events') : events'[k].type = "result")
        => /\ pc = "awaitLLM"
           /\ Positions("batchStart") # {}
           /\ Cardinality(Positions("batchStart")) * BATCH_SIZE = i + BATCH_SIZE
           /\ events[Len(events)].type = "batchStart"
           /\ \A k \in (Len(events) + 1)..Len(events') : events'[k].type = "result"

C1_BatchOrdering ==
    /\ [](Streaming => C1_IndicesCountUp /\ C1_ExactCount /\ C1_NothingAfterStats)
    /\ [][C1_ResultsOfOpenBatch]_vars

C1_Witness ==
    /\ pc = "done"
    /\ Cardinality(Positions("batchStart")) = 3
    /\ \E k \in Positions("batchStart"), m \in Positions("result"), n \in Positions("batchStart") :
          events[k].index = 2 /\ k < m /\ m < n

\* ------------------------------------------------------------------------
\* C2: when the qualitative pass of a batch throws, an error message carrying
\* that batch's number is emitted, the categorical-pass entries of every batch
\* (the failed one included) are in the final ledger, and complete is still
\* eventually emitted.
\* ------------------------------------------------------------------------
\* the batches whose qualitative pass threw
C2_Threw == {b \in 1..Len(outcome) : outcome[b] = "threw"}

C2_ErrorCarriesBatchIndex ==
    \A b \in C2_Threw :
        \E k \in Positions("error") : events[k].batchIndex = Some(b)

\* the entries of the categorical pass over the b-th slice of the rows lie in the
\* ledger, contiguous and in order
C2_BatchContributes(b) ==
    LET entries == CategoricalPass(runId, rows, mapping.studentIdHeader,
                                   mapping.questionHeaders, (b - 1) * BATCH_SIZE)
    IN  \E start \in 0..(Len(allRunCategorizations) - Len(entries)) :
            SubSeq(allRunCategorizations, start + 1, start + Len(entries)) = entries

C2_CompleteEmitted ==
    /\ pc = "done"
    /\ Positions("complete") # {}

C2_PartialFailure ==
    /\ [](C2_ErrorCarriesBatchIndex)
    /\ [](pc = "done" /\ C2_Threw # {}
            => \A b \in 1..CeilDiv(Len(rows), BATCH_SIZE) : C2_BatchContributes(b))
    /\ (C2_Threw # {}) ~> C2_CompleteEmitted

C2_Witness ==
    /\ pc = "done"
    /\ Len(outcome) = 3
    /\ outcome[1] = "ok" /\ outcome[2] = "threw" /\ outcome[3] # "threw"
    /\ Len(categoricalQuestions(mapping.questionHeaders)) > 0
    /\ \E k \in Positions("error") : events[k].batchIndex = Some(2)
    /\ Positions("complete") # {}

\* ------------------------------------------------------------------------
\* C3: a run that started the batch loop and finished has emitted stats, summary
\* and complete, each exactly once, in that order, after every message of the
\* batches, whether or not batches or the summary call failed.
\* ------------------------------------------------------------------------
\* the messages the batch loop sends
C3_BatchMessages ==
    Positions("batchStart") \cup Positions("result")
        \cup {k \in Positions("error") : events[k].batchIndex # None}

C3_TerminalEvents ==
    pc = "done" =>
        /\ Cardinality(Positions("stats")) = 1
        /\ Cardinality(Positions("summary")) = 1
        /\ Cardinality(Positions("complete")) = 1
        /\ \A s \in Positions("stats"), m \in Positions("summary"), c \in Positions("complete") :
              /\ s < m /\ m < c
              /\ \A b \in C3_BatchMessages : b < s

\* ------------------------------------------------------------------------
\* C4: once the stream is open, every run ends with complete as the last message
\* before the stream is closed (as claimed); as amended: every run whose setup
\* succeeded does, and a run whose setup failed sends one error message and
\* closes the stream without complete.
\* ------------------------------------------------------------------------
C4_LastIsComplete ==
    /\ Len(events) > 0
    /\ events[Len(events)].type = "complete"
    /\ Cardinality(Positions("complete")) = 1

C4_ClosedStream ==
    streamState = "closed" =>
        IF pc = "failed"
        THEN /\ Len(events) = 1
             /\ events[1].type = "error"
             /\ Positions("complete") = {}
        ELSE pc = "done" /\ C4_LastIsComplete

\* once the setup has succeeded the run cannot end as a failed one
C4_NoFailureAfterSetup ==
    pc \in {"loop", "awaitLLM", "awaitSummary", "awaitUpsert"} => pc' # "failed"

HeadersOf(qs) == {qs[j].header : j \in 1..Len(qs)}

\* the proposed identifier is null or not a header of the sheet
ProposedIdUnusable ==
    \/ proposed.studentIdHeader = None
    \/ proposed.studentIdHeader[1] \notin DOMAIN sheet[1]

\* the mapping stage has just returned a mapping
MappingReturned == pc = "confirm"

\* ------------------------------------------------------------------------
\* C5: when the proposed identifier is null or not a header of the sheet, the
\* returned studentIdHeader is the synthetic header, every returned row is the
\* uploaded row plus that header with value "Row <n>" (n counted from 1), and no
\* returned question entry names the synthetic header.
\* ------------------------------------------------------------------------
C5_FallbackIdentifier ==
    (MappingReturned /\ ProposedIdUnusable) =>
        /\ mapping.studentIdHeader = GENERATED_ID_HEADER
        /\ Len(rows) = Len(sheet)
        /\ \A n \in 1..Len(rows) :
              /\ DOMAIN rows[n] = DOMAIN sheet[n] \cup {GENERATED_ID_HEADER}
              /\ rows[n][GENERATED_ID_HEADER] = [k |-> "s", s |-> "Row " \o ToString(n)]
              /\ \A h \in DOMAIN sheet[n] : rows[n][h] = sheet[n][h]
        /\ GENERATED_ID_HEADER \notin HeadersOf(mapping.questionHeaders)

\* the proposal named the synthetic header among the questions, over MaxRows rows
C5_Witness ==
    /\ MappingReturned
    /\ proposed.studentIdHeader = Some("Name")
    /\ GENERATED_ID_HEADER \in HeadersOf(proposed.questionHeaders)
    /\ Len(rows) = MaxRows
    /\ rows[MaxRows][GENERATED_ID_HEADER] = Str("Row " \o ToString(MaxRows))

\* ------------------------------------------------------------------------
\* C6: in every mapping the mapping stage returns, studentIdHeader is not the
\* header of any question entry.
\* ------------------------------------------------------------------------
C6_IdentifierNotAQuestion ==
    MappingReturned => mapping.studentIdHeader \notin HeadersOf(mapping.questionHeaders)

\* the proposal listed a valid identifier twice among the questions
C6_Witness ==
    /\ MappingReturned
    /\ proposed.studentIdHeader = Some("Email")
    /\ Cardinality({j \in 1..Len(proposed.questionHeaders) :
                       proposed.questionHeaders[j].header = "Email"}) = 2
    /\ mapping.studentIdHeader = "Email"
    /\ mapping.questionHeaders = << QH("Rating", TRUE) >>

\* ------------------------------------------------------------------------
\* C7: a mapping is returned only if every question header is a header of the
\* returned rows; if a proposed question header is not a header of the rows (the
\* synthetic one included when it was added), the stage answers with a validation
\* error naming exactly those headers and returns no mapping.
\* ------------------------------------------------------------------------
\* the headers against which the proposal is validated
C7_HeaderSet ==
    DOMAIN sheet[1] \cup (IF ProposedIdUnusable THEN {GENERATED_ID_HEADER} ELSE {})

C7_Absent == HeadersOf(proposed.questionHeaders) \ C7_HeaderSet

C7_ValidationError ==
    /\ (MappingReturned =>
           /\ aStatus = 200
           /\ C7_Absent = {}
           /\ HeadersOf(mapping.questionHeaders) \subseteq DOMAIN rows[1]
           /\ DOMAIN rows[1] = C7_HeaderSet)
    /\ (pc = "upload" /\ proposed # NoProposal =>
           /\ C7_Absent # {}
           /\ aStatus = 500
           /\ aDetails = "validation"
           /\ {aInvalid[j] : j \in 1..Len(aInvalid)} = C7_Absent
           /\ mapping = NoMapping
           /\ rows = << >>)

C7_Witness ==
    /\ pc = "upload"
    /\ aDetails = "validation"
    /\ proposed.studentIdHeader = Some("Email")
    /\ aInvalid = << "Bogus", "Extra" >>
    /\ mapping = NoMapping

\* ------------------------------------------------------------------------
\* C8: the categorical pass over a batch appends, for every row of the batch and
\* every categorical entry of the mapping, exactly one record, rows in order and
\* entries in order within a row: topic is the header trimmed, lower-cased, with
\* every run of whitespace replaced by one underscore; sentiment is "n/a";
\* sub_category is the answer normalized the same way, or the default sentinel
\* when the answer is missing or blank.
\* ------------------------------------------------------------------------
\* the normal form written as a scan over the characters: leading and trailing
\* whitespace is dropped, a run of whitespace between two words gives one "_"
RECURSIVE C8_Scan(_, _, _, _)
C8_Scan(s, k, out, gap) ==
    IF k > Len(s) THEN out
    ELSE IF SubSeq(s, k, k) \in {" ", "\t", "\n"} THEN C8_Scan(s, k + 1, out, out # "")
    ELSE C8_Scan(s, k + 1,
                 out \o (IF gap THEN "_" ELSE "")
                     \o (IF SubSeq(s, k, k) \in DOMAIN LowerMap
                         THEN LowerMap[SubSeq(s, k, k)] ELSE SubSeq(s, k, k)),
                 FALSE)

C8_NormalForm(s) == C8_Scan(s, 1, "", FALSE)

\* the text of an answer: empty when the cell is missing
C8_AnswerText(row, h) == IF h \in DOMAIN row THEN row[h].s ELSE ""

\* the position in questionHeaders of the m-th categorical entry
C8_CategoricalEntry(m) ==
    CHOOSE j \in 1..Len(mapping.questionHeaders) :
        /\ mapping.questionHeaders[j].isCategorical
        /\ Cardinality({k \in 1..j : mapping.questionHeaders[k].isCategorical}) = m

C8_CategoricalCount ==
    Cardinality({j \in 1..Len(mapping.questionHeaders) :
                    mapping.questionHeaders[j].isCategorical})

\* what the record of row n and header h has to be
C8_RecordIsRight(r, n, h) ==
    /\ r.run_id = runId
    /\ r.student_identifier =
           (IF mapping.studentIdHeader \in DOMAIN rows[n] THEN rows[n][mapping.studentIdHeader]
            ELSE [k |-> "s", s |-> "Row " \o ToString(n) \o " (No ID)"])
    /\ r.question_text = h
    /\ r.original_answer = [k |-> "s", s |-> C8_AnswerText(rows[n], h)]
    /\ r.topic = C8_NormalForm(h)
    /\ r.sentiment = "n/a"
    /\ r.sub_category =
           << IF C8_NormalForm(C8_AnswerText(rows[n], h)) = "" THEN SUB_CATEGORY_DEFAULT
              ELSE C8_NormalForm(C8_AnswerText(rows[n], h)) >>

\* a step that starts the batch at offset i
C8_BatchStep ==
    (pc = "loop" /\ i < Len(rows)) =>
        LET first == i + 1
            last  == IF i + BATCH_SIZE < Len(rows) THEN i + BATCH_SIZE ELSE Len(rows)
            base  == Len(allRunCategorizations)
            nc    == C8_CategoricalCount
        IN  /\ Len(allRunCategorizations') = base + (last - first + 1) * nc
            /\ SubSeq(allRunCategorizations', 1, base) = allRunCategorizations
            /\ \A n \in first..last : \A m \in 1..nc :
                  C8_RecordIsRight(allRunCategorizations'[base + (n - first) * nc + m], n,
                                   mapping.questionHeaders[C8_CategoricalEntry(m)].header)

C9_Complete ==
    {j \in 1..Len(allRunCategorizations) :
        /\ allRunCategorizations[j].question_text # ""
        /\ allRunCategorizations[j].topic # ""
        /\ allRunCategorizations[j].sentiment # ""}

C9_Key(r) ==
    r.topic \o "_" \o r.sentiment \o "_"
        \o (IF r.sub_category = << >> \/ r.sub_category = << "" >>
            THEN SUB_CATEGORY_DEFAULT ELSE r.sub_category[1])

\* the complete records counted under question q and key k
C9_Counted(q, k) ==
    {j \in C9_Complete :
        allRunCategorizations[j].question_text = q /\ C9_Key(allRunCategorizations[j]) = k}

C9_StatsAreTheFold ==
    LoopEnded =>
        /\ DOMAIN runStats = {allRunCategorizations[j].question_text : j \in C9_Complete}
        /\ \A q \in DOMAIN runStats :
              /\ DOMAIN runStats[q] =
                    {C9_Key(allRunCategorizations[j]) :
                        j \in {c \in C9_Complete : allRunCategorizations[c].question_text = q}}
              /\ \A k \in DOMAIN runStats[q] :
                    runStats[q][k] = Cardinality(C9_Counted(q, k))

\* records of both passes are counted, some share a key, and a record without a
\* topic is in the ledger
C9_Witness ==
    /\ LoopEnded
    /\ \E j \in 1..Len(allRunCategorizations) : j \notin C9_Complete
    /\ \E q \in DOMAIN runStats : \E k \in DOMAIN runStats[q] : runStats[q][k] >= BATCH_SIZE
    /\ \E j \in C9_Complete :
          /\ allRunCategorizations[j].sentiment = "positive"
          /\ allRunCategorizations[j].sub_category = None

\* ------------------------------------------------------------------------
\* C10: for the sheet with the one row {Email: "a@x.com", Rating: "5",
\* Comments: "great staff"}, Rating categorical and Comments qualitative, and the
\* classification {topic: "staff", sentiment: "positive"} without sub_category
\* for Comments, the final statistics are exactly
\* {"Rating": {"rating_n/a_5": 1}, "Comments": {"staff_positive_<sentinel>": 1}},
\* where <sentinel> is "no-detail" as claimed and "detail_na" as amended.
\* ------------------------------------------------------------------------
C10_Scenario ==
    /\ LoopEnded
    /\ rows = << [h \in {"Email", "Rating", "Comments"} |->
                    CASE h = "Email" -> [k |-> "s", s |-> "a@x.com"]
                      [] h = "Rating" -> [k |-> "s", s |-> "5"]
                      [] h = "Comments" -> [k |-> "s", s |-> "great staff"]] >>
    /\ mapping = [studentIdHeader |-> "Email",
                  questionHeaders |-> << [header |-> "Rating", isCategorical |-> TRUE],
                                         [header |-> "Comments", isCategorical |-> FALSE] >>]
    /\ Cardinality(Positions("result")) = 1
    /\ \A k \in Positions("result") :
          events[k].data =
              [respondentId |-> "a@x.com",
               categorizations |-> << [question |-> "Comments", topic |-> "staff",
                                       sentiment |-> "positive", sub_category |-> << >>] >>]

\* the claim as stated
C10_StatsWithNoDetail ==
    C10_Scenario =>
        runStats = ("Rating" :> ("rating_n/a_5" :> 1))
                       @@ ("Comments" :> ("staff_positive_no-detail" :> 1))

C10_StatsWithDetailNa ==
    C10_Scenario =>
        runStats = ("Rating" :> ("rating_n/a_5" :> 1))
                       @@ ("Comments" :> ("staff_positive_detail_na" :> 1))

C10_Witness ==
    /\ C10_Scenario
    /\ pc = "done"
    /\ \E k \in Positions("stats") : events[k].data = runStats
    /\ Len(allRunCategorizations) = 2

\* ------------------------------------------------------------------------
\* C11: a processing request with an empty row set, or without a runId, a
\* mapping, an identifier header or question headers, is answered by one error
\* response before a stream exists: it emits no message and writes nothing to
\* the store.
\* ------------------------------------------------------------------------
\* the request being handled, or handled last, is one the claim wants rejected
C11_Unacceptable ==
    /\ posts > 0
    /\ \/ runId = ""
       \/ mapping.studentIdHeader = ""
       \/ Len(mapping.questionHeaders) = 0
       \/ Len(rows) = 0

C11_RejectedBeforeStream ==
    C11_Unacceptable =>
        /\ pc = "rejected"
        /\ streamState = "none"
        /\ events = << >>
        /\ \A k \in 1..Len(written) : written[k].request # posts

\* ------------------------------------------------------------------------
\* C12: no two records of the ledger have the same student_identifier and the
\* same question_text, whatever the rows (equal identifiers included) and
\* whatever the classification response (repeated questions or respondents
\* included).
\* ------------------------------------------------------------------------
C12_Pairs ==
    {<< allRunCategorizations[j].student_identifier, allRunCategorizations[j].question_text >> :
        j \in 1..Len(allRunCategorizations)}

C12_OneRecordPerPair == Cardinality(C12_Pairs) = Len(allRunCategorizations)

\* ------------------------------------------------------------------------
\* C13: a retrieval by run_id whose read of the store succeeds answers with the
\* stored {categorizations, statistics, summary} unchanged; it answers not found
\* when the run_id has no row and when the stored results lack categorizations
\* or statistics, and with no other error in these cases.
\* ------------------------------------------------------------------------
\* the stored results are without one of the two fields
C13_Incomplete(row) == ~({"categorizations", "statistics"} \subseteq DOMAIN row.results)

\* a retrieval was answered and the store could be read
C13_Answered ==
    /\ response # NoResponse
    /\ response.runId # ""
    /\ response.error \notin {"Database error", "Failed to fetch results"}

\* the results carried by a successful response of either route
C13_Returned ==
    IF response.route = "results" THEN response.body[1] ELSE response.body[1].results

C13_RetrievalIsKeyedRead ==
    C13_Answered =>
        IF response.runId \notin DOMAIN store
        THEN response.status = 404
        ELSE IF C13_Incomplete(store[response.runId])
             THEN response.status = 404
             ELSE /\ response.status = 200
                  /\ C13_Returned = store[response.runId].results

\* ------------------------------------------------------------------------
\* C14: when the summary call fails the run goes on: the summary kept for the
\* run is the fixed placeholder, the upsert is issued with it and complete is
\* the last message of the run.  The placeholder is "summary unavailable" as
\* claimed and "AI summary could not be generated." as amended.
\* ------------------------------------------------------------------------
C14_SummaryFailed ==
    \E k \in Positions("error") : events[k].message = "Failed to generate AI summary"

C14_RunGoesOnWith(placeholder) ==
    C14_SummaryFailed =>
        /\ summaryText = placeholder
        /\ finalRunData.summary = placeholder
        /\ pc \in {"awaitUpsert", "done"}
        /\ pc = "done" =>
              /\ C4_LastIsComplete
              /\ \A k \in 1..Len(written) : written[k].results.summary = placeholder
              /\ runId \in DOMAIN store => store[runId].results.summary = placeholder

\* the claim as stated
C14_SummaryUnavailable == C14_RunGoesOnWith("summary unavailable")

C14_DefaultSummaryPersisted == C14_RunGoesOnWith(DEFAULT_SUMMARY)

\* the summary call failed, the run was saved and ended with complete
C14_Witness ==
    /\ C14_SummaryFailed
    /\ pc = "done"
    /\ Len(written) = 1
    /\ store[runId].results.summary = DEFAULT_SUMMARY
    /\ store[runId].results.statistics # EmptyStats

\* ------------------------------------------------------------------------
\* C15: when the final upsert fails, an error message is sent and complete is
\* sent after it as the last message; the messages sent before, stats and
\* summary among them, stay as they were, and the store is not changed.
\* ------------------------------------------------------------------------
\* the step in which the outstanding upsert fails: the run ends with no new write
C15_SaveFailedStep == pc = "awaitUpsert" /\ pc' = "done" /\ written' = written

C15_ErrorThenCompleteStep ==
    C15_SaveFailedStep =>
        /\ Len(events') = Len(events) + 2
        /\ SubSeq(events', 1, Len(events)) = events
        /\ events'[Len(events) + 1].type = "error"
        /\ events'[Len(events) + 1].message = "Failed to save final results"
        /\ events'[Len(events) + 2].type = "complete"
        /\ streamState' = "closed"
        /\ store' = store

\* a save error is never the last message and is followed by complete only
C15_SaveErrorPrecedesComplete ==
    \A k \in Positions("error") :
        events[k].message = "Failed to save final results" =>
            /\ k + 1 = Len(events)
            /\ events[k + 1].type = "complete"
            /\ Positions("stats") # {}
            /\ \A s \in Positions("stats") \cup Positions("summary") : s < k

C15_SaveFailureStillCompletes ==
    /\ [][C15_ErrorThenCompleteStep]_vars
    /\ [](C15_SaveErrorPrecedesComplete)

\* a run with statistics and a summary whose save failed
C15_Witness ==
    /\ pc = "done"
    /\ written = << >>
    /\ runId \notin DOMAIN store
    /\ Positions("summary") # {}
    /\ runStats # EmptyStats
    /\ \E k \in Positions("error") : events[k].message = "Failed to save final results"

\* ------------------------------------------------------------------------
\* C16: when the statistics block fails, the run takes the empty statistics,
\* sends an error message and no stats message, goes on to the summary step and
\* to the upsert, and the statistics it persists are the empty mapping.
\* ------------------------------------------------------------------------
C16_StatsFailed ==
    \E k \in Positions("error") : events[k].message = "Failed to calculate statistics"

C17_Writes(rid) == {k \in 1..Len(written) : written[k].run_id = rid}

\* the payload of the latest write under a run_id
C17_LastWritten(rid) ==
    written[CHOOSE k \in C17_Writes(rid) : \A m \in C17_Writes(rid) : m <= k].results

\* a step in which an upsert succeeds
C17_WriteStep ==
    written' # written =>
        /\ DOMAIN store' = DOMAIN store \cup {runId}
        /\ store'[runId].results = finalRunData
        /\ \A r \in DOMAIN store \ {runId} : store'[r] = store[r]

C17_RetrievalReturnsLastWrite ==
    \A rid \in {written[k].run_id : k \in 1..Len(written)} :
        /\ store[rid].results = C17_LastWritten(rid)
        /\ (response.route = "results" /\ response.status = 200 /\ response.runId = rid) =>
              response.body = Some(C17_LastWritten(rid))

C17_SecondWriteWins ==
    /\ [][C17_WriteStep]_vars
    /\ [](C17_RetrievalReturnsLastWrite)

\* two writes of different payloads under one run_id, then a retrieval
C17_Witness ==
    /\ Len(written) = MaxPosts
    /\ written[1].run_id = written[MaxPosts].run_id
    /\ written[1].results.categorizations # << >>
    /\ written[MaxPosts].results.categorizations # written[1].results.categorizations
    /\ written[MaxPosts].results.summary # written[1].results.summary
    /\ response.route = "results"
    /\ response.status = 200
    /\ response.runId = written[1].run_id
    /\ response.body = Some(written[MaxPosts].results)

\* ------------------------------------------------------------------------
\* C18: the statistics are a function of the ledger alone: two runs that end
\* with the same ledger persist the same statistics, whatever was computed or
\* stored before, and the fold leaves the ledger as it was.
\* ------------------------------------------------------------------------
\* the step that folds the ledger
C18_FoldStep ==
    (pc = "loop" /\ pc' \in {"awaitSummary", "awaitUpsert"}) =>
        /\ allRunCategorizations' = allRunCategorizations
        /\ runStats' = ComputeRunStats(allRunCategorizations)
        /\ ComputeRunStats(allRunCategorizations') = runStats'

C18_SameLedgerSameStats ==
    \A j, k \in 1..Len(written) :
        written[j].results.categorizations = written[k].results.categorizations =>
            written[j].results.statistics = written[k].results.statistics

C19_Categorical(b) ==
    CategoricalPass(runId, rows, mapping.studentIdHeader, mapping.questionHeaders,
                    (b - 1) * BATCH_SIZE)

\* the step in which the qualitative pass of the current batch fails
C19_FailureStep ==
    (pc = "awaitLLM" /\ outcome' = Append(outcome, "threw")) =>
        /\ allRunCategorizations' = allRunCategorizations
        /\ i' = i + BATCH_SIZE
        /\ pc' = "loop"
        /\ streamState' = streamState

\* while the call is outstanding the ledger ends with the batch's categorical records
C19_CategoricalKept ==
    pc = "awaitLLM" =>
        \E own \in {C19_Categorical(BatchNumber(i))} :
            /\ Len(own) <= Len(allRunCategorizations)
            /\ SubSeq(allRunCategorizations, Len(allRunCategorizations) - Len(own) + 1,
                      Len(allRunCategorizations)) = own

\* in the final ledger nothing lies between the categorical records of a failed
\* batch and those of the batch after it
C19_NothingQualitative(b) ==
    \E run \in {IF b < Len(outcome) THEN C19_Categorical(b) \o C19_Categorical(b + 1)
                ELSE C19_Categorical(b)} :
        IF b < Len(outcome)
        THEN \E start \in 0..(Len(allRunCategorizations) - Len(run)) :
                 SubSeq(allRunCategorizations, start + 1, start + Len(run)) = run
        ELSE /\ Len(run) <= Len(allRunCategorizations)
             /\ SubSeq(allRunCategorizations, Len(allRunCategorizations) - Len(run) + 1,
                       Len(allRunCategorizations)) = run

C19_FinalLedger ==
    LoopEnded =>
        /\ Len(outcome) = CeilDiv(Len(rows), BATCH_SIZE)
        /\ \A b \in C2_Threw : C19_NothingQualitative(b)

C20_NonBlank(row, h) ==
    /\ h \in DOMAIN row
    /\ \E k \in 1..Len(row[h].s) : SubSeq(row[h].s, k, k) \notin {" ", "\t", "\n"}

\* the batch at offset off has a non-blank answer to a qualitative question
C20_HasWork(off) ==
    \E m \in 1..Len(mapping.questionHeaders) :
        /\ ~mapping.questionHeaders[m].isCategorical
        /\ \E n \in (off + 1)..Min(off + BATCH_SIZE, Len(rows)) :
              C20_NonBlank(rows[n], mapping.questionHeaders[m].header)

\* the step that starts a batch
C20_BatchStep ==
    (pc = "loop" /\ i < Len(rows)) =>
        /\ (pc' = "awaitLLM") <=> C20_HasWork(i)
        /\ ~C20_HasWork(i) =>
              /\ pc' = "loop"
              /\ i' = i + BATCH_SIZE
              /\ Len(events') = Len(events) + 1
              /\ events'[Len(events')].type = "batchStart"
              /\ outcome' = Append(outcome, "skipped")

\* a batch is skipped only without such an answer, and no error names it
C20_SkippedBatches ==
    \A b \in 1..Len(outcome) :
        /\ outcome[b] = "skipped" <=> ~C20_HasWork((b - 1) * BATCH_SIZE)
        /\ outcome[b] = "skipped" =>
              \A k \in Positions("error") : events[k].batchIndex # Some(b)

C20_CalledIffQualitativeData ==
    /\ [][C20_BatchStep]_vars
    /\ [](C20_SkippedBatches)

\* the first batch was classified and the second, whose comments are blank or
\* absent, was skipped
C20_Witness ==
    /\ Len(outcome) >= 2
    /\ outcome[1] = "ok"
    /\ outcome[2] = "skipped"
    /\ Len(qualitativeQuestions(mapping.questionHeaders)) > 0
    /\ Len(rows) > BATCH_SIZE + 1
    /\ "Comments" \in DOMAIN rows[BATCH_SIZE + 2]
    /\ \E m \in 1..Len(mapping.questionHeaders) :
          mapping.questionHeaders[m] = QH("Comments", FALSE)

\* ------------------------------------------------------------------------
\* C21: the batches of a run are handled one after another: at most one
\* classification call is outstanding, every batch started before the current
\* one has been handled (classified, failed or skipped), and the batchStart of
\* a batch is sent only when no call is outstanding and the messages of the
\* batch before it have been sent.
\* ------------------------------------------------------------------------
\* the classification calls that have not settled
C21_Outstanding == IF pc = "awaitLLM" THEN 1 ELSE 0

\* every batch that was started is handled, but the one whose call is outstanding
C21_OneAtATime ==
    Streaming =>
        /\ Cardinality(Positions("batchStart")) = Len(outcome) + C21_Outstanding
        /\ i = Len(outcome) * BATCH_SIZE
        /\ \A k \in Positions("error") : \A b \in Positions("batchStart") :
              (events[k].batchIndex # None /\ events[k].batchIndex[1] < events[b].index)
                  => k < b

\* the step that sends a batchStart
C21_BatchStartStep ==
    Cardinality({k \in 1..Len(events') : events'[k].type = "batchStart"})
            > Cardinality(Positions("batchStart")) =>
        /\ pc = "loop"
        /\ C21_Outstanding = 0
        /\ Len(outcome) = BatchNumber(i) - 1
        /\ events'[Len(events')].index = Len(outcome) + 1

C21_StrictlySequential ==
    /\ [](C21_OneAtATime)
    /\ [][C21_BatchStartStep]_vars

\* the third batch was started after two classified or failed batches
C21_Witness ==
    /\ pc = "awaitLLM"
    /\ Len(outcome) = 2
    /\ outcome[1] = "ok"
    /\ outcome[2] = "threw"
    /\ Cardinality(Positions("batchStart")) = 3
    /\ Positions("result") # {}

\* ------------------------------------------------------------------------
\* C22: the sets of seen topics and sub-categories only grow during a run, and
\* the context hint of a batch's prompt lists only values normalized from the
\* responses of earlier batches, at most 30 topics and 50 sub-categories.
\* ------------------------------------------------------------------------
C22_IsPrefix(s, t) == Len(s) <= Len(t) /\ SubSeq(t, 1, Len(s)) = s

\* the steps of a run after the sets were created
C22_InRun == pc \in {"loop", "awaitLLM", "awaitSummary", "awaitUpsert"}

\* no step of a run removes a value or resets a set
C22_SetsOnlyGrow ==
    C22_InRun =>
        /\ C22_IsPrefix(identifiedTopics, identifiedTopics')
        /\ C22_IsPrefix(identifiedSubCategories, identifiedSubCategories')

\* the normalized categorizations streamed so far: those of the batches before
\* the one whose call is outstanding
C22_StreamedCats ==
    UNION {{events[k].data.categorizations[m] :
               m \in 1..Len(events[k].data.categorizations)} : k \in Positions("result")}

C22_HintFromEarlierBatches ==
    pc = "awaitLLM" =>
        /\ Len(batchPrompt.topics) <= TOPIC_CONTEXT_LIMIT
        /\ Len(batchPrompt.subCategories) <= SUBCATEGORY_CONTEXT_LIMIT
        /\ \A j \in 1..Len(batchPrompt.topics) :
              /\ batchPrompt.topics[j] # "n/a"
              /\ \E c \in C22_StreamedCats : c.topic = batchPrompt.topics[j]
        /\ \A j \in 1..Len(batchPrompt.subCategories) :
              \E c \in C22_StreamedCats : c.sub_category = Some(batchPrompt.subCategories[j])
        /\ (Len(outcome) = 0 =>
               batchPrompt.topics = << >> /\ batchPrompt.subCategories = << >>)

C22_ContextGrowsAndHintIsBounded ==
    /\ [][C22_SetsOnlyGrow]_vars
    /\ [](C22_HintFromEarlierBatches)

\* a prompt whose hint was cut at both limits
C22_Witness ==
    /\ pc = "awaitLLM"
    /\ Len(identifiedTopics) > TOPIC_CONTEXT_LIMIT
    /\ Len(identifiedSubCategories) > SUBCATEGORY_CONTEXT_LIMIT
    /\ Len(batchPrompt.topics) = TOPIC_CONTEXT_LIMIT
    /\ Len(batchPrompt.subCategories) = SUBCATEGORY_CONTEXT_LIMIT

\* ------------------------------------------------------------------------
\* C23: a run whose stream reader has gone is abandoned only at the end: every
\* batch was handled and the final store write was attempted before the
\* handler stops.
\* ------------------------------------------------------------------------
C23_AbandonStep ==
    (streamState = "cancelled" /\ pc # "aborted" /\ pc' = "aborted") =>
        /\ pc = "awaitUpsert"
        /\ Len(outcome) = TotalBatches(Len(rows))

C23_DisconnectedRunIsCarriedThrough == [][C23_AbandonStep]_vars

\* ------------------------------------------------------------------------
\* C24: every qualitative record carries the identifier of a row of the batch
\* it was appended for and a qualitative question header of the mapping;
\* categorizations for an unknown respondent or for another question are
\* streamed in the result event but not appended.
\* ------------------------------------------------------------------------
C24_QualitativeHeaders ==
    {qualitativeQuestions(mapping.questionHeaders)[m].header :
        m \in 1..Len(qualitativeQuestions(mapping.questionHeaders))}

\* the records a step appends to the ledger
C24_Appended ==
    {allRunCategorizations'[k] :
        k \in (Len(allRunCategorizations) + 1)..Len(allRunCategorizations')}

\* the step that handles the response of the batch at offset i
C24_AccumulationStep ==
    (pc = "awaitLLM" /\ pc' = "loop" /\ outcome' = Append(outcome, "ok")) =>
        \A r \in C24_Appended :
            /\ r.student_identifier.k = "s"
            /\ \E pos \in BatchPositions(i, Len(rows)) :
                  RespondentId(rows[pos], mapping.studentIdHeader, pos) = r.student_identifier
            /\ r.question_text \in C24_QualitativeHeaders

\* in the ledger, nothing of what the capability invented
C24_Ledger ==
    \A k \in 1..Len(allRunCategorizations) :
        /\ allRunCategorizations[k].student_identifier # Str("ghost")
        /\ allRunCategorizations[k].question_text \in
               {mapping.questionHeaders[m].header : m \in 1..Len(mapping.questionHeaders)}

C24_OnlyKnownRespondentsAndQuestions ==
    /\ [][C24_AccumulationStep]_vars
    /\ [](C24_Ledger)

\* both kinds of invented categorization were streamed, and records of the
\* same response were appended
C24_Witness ==
    /\ \E k \in Positions("result") : events[k].data.respondentId = "ghost"
    /\ \E k \in Positions("result") :
          \E m \in 1..Len(events[k].data.categorizations) :
              /\ events[k].data.categorizations[m].question = "Rating"
              /\ "Rating" \notin C24_QualitativeHeaders
              /\ events[k].data.categorizations[m].topic = "scale"
    /\ \E k \in 1..Len(allRunCategorizations) :
          /\ allRunCategorizations[k].topic = "staff"
          /\ allRunCategorizations[k].sub_category = Some("friendly_staff")
    /\ \A k \in 1..Len(allRunCategorizations) : allRunCategorizations[k].topic # "scale"

\* ------------------------------------------------------------------------
\* C25: when the capability returns a respondent's identifier as the prompt
\* printed it, the categorizations of qualitative questions it returned for
\* that respondent are in the ledger, whether the identifier cell of the row
\* is text or a number.
\* ------------------------------------------------------------------------
\* the rows whose identifier is printed in a prompt as id
C25_RowsPrintedAs(id) ==
    {pos \in 1..Len(rows) :
        JSString(RespondentId(rows[pos], mapping.studentIdHeader, pos)) = id}

C25_InLedger(id, question) ==
    \E k \in 1..Len(allRunCategorizations) :
        /\ allRunCategorizations[k].student_identifier = Str(id)
        /\ allRunCategorizations[k].question_text = question

C25_EchoedIdentifiersAreAppended ==
    \A e \in Positions("result") :
        C25_RowsPrintedAs(events[e].data.respondentId) # {} =>
            \A m \in 1..Len(events[e].data.categorizations) :
                events[e].data.categorizations[m].question \in C24_QualitativeHeaders =>
                    C25_InLedger(events[e].data.respondentId,
                                 events[e].data.categorizations[m].question)

\* the same for the rows whose identifier cell is text or absent
C25_TextIdentifiersAreAppended ==
    \A e \in Positions("result") :
        (\E pos \in C25_RowsPrintedAs(events[e].data.respondentId) :
            RespondentId(rows[pos], mapping.studentIdHeader, pos).k = "s") =>
            \A m \in 1..Len(events[e].data.categorizations) :
                events[e].data.categorizations[m].question \in C24_QualitativeHeaders =>
                    C25_InLedger(events[e].data.respondentId,
                                 events[e].data.categorizations[m].question)

\* ------------------------------------------------------------------------
\* C26: whatever the mapping stage returns with success passes the request
\* validation of the processing stage when it is sent back unchanged, a
\* mapping left without question headers included.
\* ------------------------------------------------------------------------
C26_ReturnedResultIsAccepted == pc = "confirm" => ValidRequest(Request)

\* the same for the results whose mapping kept a question header
C26_ReturnedResultWithQuestionsIsAccepted ==
    (pc = "confirm" /\ Len(mapping.questionHeaders) > 0) => ValidRequest(Request)

\* ------------------------------------------------------------------------
\* C27: the client's parse of a record's combined key gives back the record's
\* topic, sentiment and sub-category (underscores shown as spaces, the default
\* sentinel shown as no sub-category), also when the topic or the sub-category
\* holds a sentiment word between underscores, and the stats regrouped by
\* parsed key keep every count.
\* ------------------------------------------------------------------------
\* what the client should show for a record
C27_Shown(r) ==
    [topic |-> ReplaceUnderscores(r.topic),
     sentiment |-> r.sentiment,
     subCategory |-> IF SubCategoryKey(r.sub_category) = SUB_CATEGORY_DEFAULT THEN None
                     ELSE Some(ReplaceUnderscores(r.sub_category[1]))]

\* the distinct (question, topic, sentiment, sub-category) of the ledger records
\* that the reducer counts under a key
C27_Records ==
    {r \in {[question_text |-> allRunCategorizations[k].question_text,
             topic |-> allRunCategorizations[k].topic,
             sentiment |-> allRunCategorizations[k].sentiment,
             sub_category |-> allRunCategorizations[k].sub_category] :
                k \in 1..Len(allRunCategorizations)} :
        r.question_text # "" /\ r.topic # "" /\ r.sentiment # ""}

C27_KeyReadBack(r) == parseCombinedCategory(CombinedCategory(r)) = C27_Shown(r)

\* the number of ledger records counted under the key of r
C27_Count(r) ==
    Cardinality({k \in 1..Len(allRunCategorizations) :
                    /\ allRunCategorizations[k].question_text = r.question_text
                    /\ CombinedCategory(allRunCategorizations[k]) = CombinedCategory(r)})

\* the statistics have been computed from the ledger
C27_StatsComputed == pc \in {"awaitSummary", "awaitUpsert", "done"}

C27_CountKept(grouped, r) ==
    The({/\ r.question_text \in DOMAIN grouped
         /\ path \in DOMAIN grouped[r.question_text]
         /\ grouped[r.question_text][path] = C27_Count(r) :
         path \in {The({<< p.topic, p.sentiment, SubCatKey(p) >> : p \in {C27_Shown(r)}})}})

C27_KeysReadBack ==
    /\ \A r \in C27_Records : C27_KeyReadBack(r)
    /\ C27_StatsComputed =>
           \E grouped \in {GroupedStats(runStats)} :
               \A r \in C27_Records : C27_CountKept(grouped, r)

\* a value with no sentiment word in it
C27_Plain(s) == \A m \in 1..Len(SENTIMENTS) : IndexOf(s, SENTIMENTS[m]) = 0

\* the same for the records whose topic and sub-category hold no sentiment word
C27_PlainKeysReadBack ==
    \E plain \in {{r \in C27_Records :
                      C27_Plain(r.topic) /\ C27_Plain(SubCategoryKey(r.sub_category))}} :
        /\ \A r \in plain : C27_KeyReadBack(r)
        /\ C27_StatsComputed =>
               \E grouped \in {GroupedStats(runStats)} :
                   \A r \in plain : C27_CountKept(grouped, r)

\* ------------------------------------------------------------------------
\* C30: for a run whose row was written only by the pipeline's final upsert,
\* the retrieval route that also reads the mapping never answers 200: when its
\* read succeeds it answers 500 'Incomplete results data found.', while the
\* results-only route answers 200 with the stored results of the same run.
\* ------------------------------------------------------------------------
\* the run ids whose row only the pipeline has written
C30_PipelineOnly ==
    {written[k].run_id : k \in 1..Len(written)} \ DOMAIN StoredBefore

C30_MappingRouteAnswer ==
    (response.route = "mapping" /\ response.runId \in C30_PipelineOnly) =>
        /\ response.status # 200
        /\ response.body = None
        /\ response.error # "Failed to fetch results" =>
              /\ response.status = 500
              /\ response.error = "Incomplete results data found."

C30_ResultsRouteAnswer ==
    (response.route = "results" /\ response.runId \in C30_PipelineOnly) =>
        (response.error # "Database error" =>
            /\ response.status = 200
            /\ response.body = Some(store[response.runId].results)
            /\ response.body = Some(C17_LastWritten(response.runId)))

MaxChunk == 3

serverVars == << useMockLlm, sheet, pc, proposed, aStatus, aDetails, aInvalid, runId,
                 mapping, rows, i, batchPrompt, allRunCategorizations, identifiedTopics,
                 identifiedSubCategories, runStats, summaryText, events, streamState,
                 store, outcome, posts, written, response >>

\* the runs the page watches: Rating categorical, Comments qualitative; one row,
\* or two batches of which the first fails and the second has one answer
ClientRows(way) == IF way = "firstBatchFailed" THEN Sheet("text", BATCH_SIZE + 2) ELSE Sheet("text", 1)

\* the ways the run went on the server: what it answered, the events it sent, the
\* ledger and the statistics it ended with
ClientRun(way) ==
    LET rs           == ClientRows(way)
        sid          == GoodMapping.studentIdHeader
        qs           == GoodMapping.questionHeaders
        \* the batch whose call was answered, its prompt and normalized response
        off          == IF way = "firstBatchFailed" THEN BATCH_SIZE ELSE 0
        prompt       == BatchPrompt(rs, sid, qs, off, << >>, << >>)
        norm         == NormalizeResponse(FirstResponse(prompt, qs))
        categorical  == IF way = "firstBatchFailed"
                        THEN CategoricalPass("run-1", rs, sid, qs, 0)
                             \o CategoricalPass("run-1", rs, sid, qs, BATCH_SIZE)
                        ELSE CategoricalPass("run-1", rs, sid, qs, 0)
        ledger       == IF way = "batchFailed" THEN categorical
                        ELSE categorical \o AccumulatedRecords("run-1", rs, sid, qs, off, norm)
        batchEvents  ==
            CASE way = "batchFailed" ->
                    << BatchStartMsg(1, 1), ErrorMsg("Processing error in batch 1", Some(1)) >>
              [] way = "firstBatchFailed" ->
                    << BatchStartMsg(1, 2), ErrorMsg("Processing error in batch 1", Some(1)),
                       BatchStartMsg(2, 2) >> \o ResultMsgs(norm)
              [] OTHER -> << BatchStartMsg(1, 1) >> \o ResultMsgs(norm)
        stats        == ComputeRunStats(ledger)
        n            == Len(rs)
        head         == batchEvents \o << StatsMsg(stats) >>
    IN  CASE way = "rejected" ->
                [pc |-> "rejected", events |-> << >>, ledger |-> << >>, prompt |-> NoPrompt,
                 stats |-> EmptyStats, summary |-> "", outcome |-> << >>]
          [] way = "setupFailed" ->
                [pc |-> "failed", events |-> << ErrorMsg("Server error", None) >>,
                 ledger |-> << >>, prompt |-> NoPrompt, stats |-> EmptyStats,
                 summary |-> "", outcome |-> << >>]
          [] way = "summaryFailed" ->
                [pc |-> "done",
                 events |-> head \o << ErrorMsg("Failed to generate AI summary", None),
                                       CompleteMsg(n) >>,
                 ledger |-> ledger, prompt |-> prompt, stats |-> stats,
                 summary |-> DEFAULT_SUMMARY, outcome |-> << "ok" >>]
          [] way = "saveFailed" ->
                [pc |-> "done",
                 events |-> head \o << SummaryMsg(AI_SUMMARY),
                                       ErrorMsg("Failed to save final results", None),
                                       CompleteMsg(n) >>,
                 ledger |-> ledger, prompt |-> prompt, stats |-> stats,
                 summary |-> AI_SUMMARY, outcome |-> << "ok" >>]
          [] way \in {"ok", "batchFailed", "firstBatchFailed"} ->
                [pc |-> "done",
                 events |-> head \o << SummaryMsg(AI_SUMMARY), CompleteMsg(n) >>,
                 ledger |-> ledger, prompt |-> prompt, stats |-> stats,
                 summary |-> AI_SUMMARY,
                 outcome |-> CASE way = "ok" -> << "ok" >>
                               [] way = "batchFailed" -> << "threw" >>
                               [] way = "firstBatchFailed" -> << "threw", "ok" >>]

ClientWays ==
    {"rejected", "setupFailed", "batchFailed", "firstBatchFailed", "summaryFailed",
     "saveFailed", "ok"}

ClientInit ==
    \E way \in ClientWays : \E run \in {ClientRun(way)} :
        /\ useMockLlm = FALSE
        /\ client = [ClientIdle EXCEPT !.stage = "confirm"]
        /\ sheet = ClientRows(way)
        /\ pc = run.pc
        /\ proposed = NoProposal
        /\ aStatus = 200
        /\ aDetails = ""
        /\ aInvalid = << >>
        /\ runId = "run-1"
        /\ mapping = GoodMapping
        /\ rows = ClientRows(way)
        /\ i = IF run.pc = "done" THEN Len(run.outcome) * BATCH_SIZE ELSE 0
        /\ batchPrompt = run.prompt
        /\ allRunCategorizations = run.ledger
        /\ identifiedTopics = << >>
        /\ identifiedSubCategories = << >>
        /\ runStats = run.stats
        /\ summaryText = run.summary
        /\ events = run.events
        /\ streamState = IF run.pc = "rejected" THEN "none" ELSE "closed"
        /\ store = StoredBefore
        /\ outcome = run.outcome
        /\ posts = 1
        /\ written = << >>
        /\ response = NoResponse

\* handleConfirmMapping up to the reader: the state is reset, the request is
\* answered with a stream, start() begins to read and the finally block runs
ClientConfirms ==
    /\ client.stage = "confirm"
    /\ pc # "rejected"
    /\ client' = [client EXCEPT !.stage = "processing",
                                !.statusMessage = "Processing feedback, please wait...",
                                !.isError = FALSE, !.isLoading = FALSE,
                                !.liveResults = EmptyStats, !.highlightedBatchIndex = -1,
                                !.statsData = None, !.groupedStats = None,
                                !.aiSummary = None, !.buffer = "",
                                !.wire = Wire(events), !.reading = TRUE,
                                !.handled = << >>, !.cuts = {}]
    /\ UNCHANGED serverVars

\* the request is answered 400: the throw of !response.ok is caught
ClientPostRejected ==
    /\ client.stage = "confirm"
    /\ pc = "rejected"
    /\ ~client.isError
    /\ client' = [client EXCEPT !.statusMessage = "Error: Invalid request payload",
                                !.isError = TRUE, !.isLoading = FALSE,
                                !.liveResults = EmptyStats, !.highlightedBatchIndex = -1,
                                !.statsData = None, !.groupedStats = None,
                                !.aiSummary = None]
    /\ UNCHANGED serverVars

\* the lengths of the chunk reader.read() may resolve with
ChunkLengths(wire) ==
    {n \in 1..MaxChunk : n <= Len(wire)} \cup {Len(wire), IndexOf(wire, "\n\n") + 1}

\* reader.read() resolves with a chunk
ClientReads ==
    /\ client.reading
    /\ client.wire # ""
    /\ \E n \in ChunkLengths(client.wire) : client' = ReadChunk(client, n, events)
    /\ UNCHANGED serverVars

\* reader.read() resolves with done: break
ClientReadsDone ==
    /\ client.reading
    /\ client.wire = ""
    /\ client' = [client EXCEPT !.reading = FALSE]
    /\ UNCHANGED serverVars

ClientNext ==
    \/ ClientConfirms
    \/ ClientPostRejected
    \/ ClientReads
    \/ ClientReadsDone

ClientSpec == ClientInit /\ [][ClientNext]_vars

\* ------------------------------------------------------------------------
\* C28: the client handles the server's events in the order they were sent,
\* each exactly once, however the body is cut into chunks (inside an event,
\* between the two line breaks of a separator), and its stage becomes
\* 'complete' only when it handles a complete event.
\* ------------------------------------------------------------------------
\* the lengths of the frames of the events, in the order sent
C28_FrameLengths == [k \in 1..Len(events) |-> Len(SseFrame(events[k]))] \o << >>

\* the length of the first k frames
RECURSIVE C28_Sum(_, _)
C28_Sum(lens, k) == IF k = 0 THEN 0 ELSE lens[k] + C28_Sum(lens, k - 1)

\* the events whose frame has been handed to the reader whole, given the number
\* of characters of the body that it has not been handed yet
C28_FramesDelivered(lens, left) ==
    Cardinality({k \in 1..Len(lens) : C28_Sum(lens, k) <= C28_Sum(lens, Len(lens)) - left})

\* handled so far: exactly the events whose frame is complete, in the order sent
C28_HandledInOrderOnce ==
    client.stage \in {"processing", "complete"} =>
        \E lens \in {C28_FrameLengths} :
            client.handled = SubSeq(events, 1, C28_FramesDelivered(lens, Len(client.wire)))

C28_CompleteOnlyOnCompleteEvent ==
    client.stage = "complete" <=>
        \E k \in 1..Len(client.handled) : client.handled[k].type = "complete"

\* the stage is not changed by a step that handles no complete event
C28_StageStep ==
    (client.stage = "processing" /\ client'.stage # "processing") =>
        /\ client'.stage = "complete"
        /\ Len(client'.handled) > Len(client.handled)
        /\ client'.handled[Len(client'.handled)].type = "complete"

C28_EventsHandledInOrderOnce ==
    /\ [](C28_HandledInOrderOnce)
    /\ [](C28_CompleteOnlyOnCompleteEvent)
    /\ [][C28_StageStep]_vars

\* a whole run was read with a chunk ending inside an event and a chunk ending
\* inside a separator
C28_Witness ==
    /\ client.stage = "complete"
    /\ ~client.reading
    /\ client.handled = events
    /\ Len(events) >= 6
    /\ {"event", "separator"} \subseteq client.cuts
    /\ client.aiSummary = Some(AI_SUMMARY)

\* ------------------------------------------------------------------------
\* C29: once an error event has set the client's error flag, no later event
\* of the stream clears it; a run that sent an error event ends at stage
\* 'complete' with the flag set, and the results panel is not shown.
\* ------------------------------------------------------------------------
\* {stage === 'complete' && !isError && ( ... )}
ResultsPanelShown(c) == c.stage = "complete" /\ ~c.isError

C29_ErrorHandled == \E k \in 1..Len(client.handled) : client.handled[k].type = "error"

C29_ErrorSent == \E k \in 1..Len(events) : events[k].type = "error"

\* the reader has left its loop
C29_StreamRead == client.stage \in {"processing", "complete"} /\ ~client.reading

\* no step of the reader clears the flag
C29_FlagStep ==
    (client.stage = "processing" /\ client.isError) => client'.isError

C29_FlagKept ==
    C29_ErrorHandled => (client.isError /\ ~ResultsPanelShown(client))

\* every run that sent an error event ends at stage 'complete'
C29_ErrorRunEndsComplete ==
    (C29_StreamRead /\ C29_ErrorSent) =>
        /\ client.stage = "complete"
        /\ client.isError
        /\ ~ResultsPanelShown(client)

\* a run that sent an error event and a complete event ends at stage 'complete'
\* with the flag set; a run that sent its error without a complete event stays at
\* 'processing' with the flag set
C29_ErrorRunEnd ==
    (C29_StreamRead /\ C29_ErrorSent) =>
        /\ client.isError
        /\ ~ResultsPanelShown(client)
        /\ client.stage = IF \E k \in 1..Len(events) : events[k].type = "complete"
                          THEN "complete" ELSE "processing"

C29_ErrorFlagSticks ==
    /\ [][C29_FlagStep]_vars
    /\ [](C29_FlagKept)
    /\ [](C29_ErrorRunEnd)

\* the error of the first batch was followed by a batchStart, a result, the
\* stats, the summary and complete
C29_Witness ==
    /\ C29_StreamRead
    /\ client.stage = "complete"
    /\ client.isError
    /\ Len(client.handled) = 7
    /\ client.handled[2].type = "error"
    /\ client.handled[3].type = "batchStart"
    /\ client.handled[4].type = "result"
    /\ client.handled[5].type = "stats"
    /\ client.handled[6].type = "summary"
    /\ client.statsData # None
    /\ client.aiSummary # None

====
